---------------------------- MODULE Spec2Model ----------------------------
(***************************************************************************)
(* A model of extra-pg-english: convertToFormalSQL (the AST resolver of    *)
(* src/inc/informalize.ts, second half) and the informal assembler of      *)
(* convertToInformalSQL (first half).                                      *)
(*                                                                         *)
(* Representation.  A JavaScript string is a sequence of one-character     *)
(* strings, so that the regular expressions of the source can be computed  *)
(* on it.  Every other JavaScript value is a record with a "type" field:   *)
(* the nodes of the statement tree keep the type names of the parser,      *)
(* null is JsNull, undefined is JsUndefined, an optional array is          *)
(* JsArray(items).  A string-or-null (an alias) is a sequence, with        *)
(* NullStr standing for null.                                              *)
(***************************************************************************)
EXTENDS Integers, Sequences, FiniteSets, TLC

VARIABLES
  pc,        \* position of convertToFormalSQL: idle, scan, resolve, done, failed
  run,       \* 1: the first conversion, 2: the conversion of its own output
  txt,       \* the text handed to convertToFormalSQL
  ast0,      \* the statement tree as parsed (kept for the claims)
  ast,       \* the statement tree, updated in place
  opt,       \* the options
  calls,     \* the invocations of the resolution function, in issue order
  scanAns,   \* the Promise.all slots of scanFromAST
  tweakAns,  \* the Promise.all slots of tweakColumnsAST/OrderBy/GroupBy
  scn,       \* what scanFromAST returned: {from, where}
  errText,   \* the text carried by the thrown error
  out,       \* the tree handed to the serializer (the returned SQL)
  out1,      \* the output of the first conversion, kept during the second
  istate,    \* informal side: the InformalizeState after the stages
  itokens,   \* informal side: the tokens handed to processEntityTokens
  iopt,      \* informal side: the options
  ipc,       \* informal side: position of convertToInformalSQL
  isql,      \* informal side: the returned string
  iblk,      \* informal side: the blocks of processEntityTokens
  ifn,       \* informal side: the entities the matcher knows
  icolumns,  \* informal side: what processColumnsInformalize returned
  icalls,    \* informal side: the calls of the matcher, in the order issued
  lex,       \* the frame of parseTokens: position, open quote, word, tokens
  num,       \* the frame of processNumberTokens
  eng        \* the frame of runInformalizeStage and of its substage

vars == <<pc, run, txt, ast0, ast, opt, calls, scanAns, tweakAns, scn, errText,
          out, out1, istate, itokens, iopt, ipc, isql, iblk, ifn, icolumns,
          icalls, lex, num, eng>>

fvars == <<pc, run, txt, ast0, ast, opt, calls, scanAns, tweakAns, scn, errText,
           out, out1>>

ivars == <<istate, itokens, iopt, ipc, isql, iblk, ifn, icolumns, icalls>>

lvars == <<lex, num, eng>>

-----------------------------------------------------------------------------
(* Bounds of the model. *)

\* the longest list of values one resolution call returns
MaxVals == 3

\* the largest LIMIT and maximum tried
MaxLimit == 3

-----------------------------------------------------------------------------
(* JavaScript values. *)

JsNull == [type |-> "js_null"]

JsUndefined == [type |-> "js_undefined"]

JsArray(items) == [type |-> "js_array", items |-> items]

JsString(s) == [type |-> "js_string", value |-> s]

NullStr == <<"%null%">>

UndefinedStr == <<"%undefined%">>

\* ast[k]==null: true of null and of undefined
IsNullish(v) == v.type \in {"js_null", "js_undefined"}

\* the truthiness test of `if (ast.where)`: an object is truthy
IsTruthy(v) == ~IsNullish(v)

-----------------------------------------------------------------------------
(* Characters and the regular expressions of the formalizer. *)

DigitChars == {"0", "1", "2", "3", "4", "5", "6", "7", "8", "9"}

LowerLetters == <<"a", "b", "c", "d", "e", "f", "g", "h", "i", "j", "k", "l", "m",
                  "n", "o", "p", "q", "r", "s", "t", "u", "v", "w", "x", "y", "z">>

UpperLetters == <<"A", "B", "C", "D", "E", "F", "G", "H", "I", "J", "K", "L", "M",
                  "N", "O", "P", "Q", "R", "S", "T", "U", "V", "W", "X", "Y", "Z">>

LetterChars == {LowerLetters[k] : k \in 1..26} \cup {UpperLetters[k] : k \in 1..26}

\* \w
WordChars == DigitChars \cup LetterChars \cup {"_"}

\* the /i flag and toLowerCase, on one character
LowerChar(c) ==
  IF \E k \in 1..26 : UpperLetters[k] = c
    THEN LowerLetters[CHOOSE k \in 1..26 : UpperLetters[k] = c]
    ELSE c

LowerStr(s) == [i \in 1..Len(s) |-> LowerChar(s[i])]

\* toUpperCase, on one character
UpperChar(c) ==
  IF \E k \in 1..26 : LowerLetters[k] = c
    THEN UpperLetters[CHOOSE k \in 1..26 : LowerLetters[k] = c]
    ELSE c

UpperStr(s) == [i \in 1..Len(s) |-> UpperChar(s[i])]

StartsWith(s, p) == Len(s) >= Len(p) /\ SubSeq(s, 1, Len(p)) = p

EndsWith(s, p) == Len(s) >= Len(p) /\ SubSeq(s, Len(s) - Len(p) + 1, Len(s)) = p

\* /^null$/i
NULL(s) == LowerStr(s) = <<"n", "u", "l", "l">>

\* /^(true|false)$/i
BOOL(s) == LowerStr(s) \in {<<"t", "r", "u", "e">>, <<"f", "a", "l", "s", "e">>}

\* /^[\d\.\-e]$/i: one character
NUMBER(s) == Len(s) = 1 /\ LowerChar(s[1]) \in DigitChars \cup {".", "-", "e"}

\* STRING = /^\'[^\']\'$/: one character between single quotes
STRINGLIT(s) == Len(s) = 3 /\ s[1] = "'" /\ s[2] # "'" /\ s[3] = "'"

\* /^\*$|^\w+$|^\"[^\"]*\"$/
IDENTIFIER(s) ==
  \/ s = <<"*">>
  \/ Len(s) >= 1 /\ \A i \in 1..Len(s) : s[i] \in WordChars
  \/ /\ Len(s) >= 2
     /\ s[1] = "\""
     /\ s[Len(s)] = "\""
     /\ \A i \in 2..(Len(s) - 1) : s[i] # "\""

\* the words of a hint pattern, /^(w1|w2|...):/i
HasHintPrefix(s, words) ==
  \E w \in words : StartsWith(LowerStr(s), w \o <<":">>)

\* /^(all|each|every):/i
HINT_ALL(s) ==
  HasHintPrefix(s, {<<"a", "l", "l">>, <<"e", "a", "c", "h">>,
                    <<"e", "v", "e", "r", "y">>})

\* /^(sum|gross|total|whole|aggregate):/i
HINT_SUM(s) ==
  HasHintPrefix(s, {<<"s", "u", "m">>, <<"g", "r", "o", "s", "s">>,
                    <<"t", "o", "t", "a", "l">>, <<"w", "h", "o", "l", "e">>,
                    <<"a", "g", "g", "r", "e", "g", "a", "t", "e">>})

\* /^(avg|mid|par|mean|norm|center|centre|average|midpoint):/i
HINT_AVG(s) ==
  HasHintPrefix(s, {<<"a", "v", "g">>, <<"m", "i", "d">>, <<"p", "a", "r">>,
                    <<"m", "e", "a", "n">>, <<"n", "o", "r", "m">>,
                    <<"c", "e", "n", "t", "e", "r">>, <<"c", "e", "n", "t", "r", "e">>,
                    <<"a", "v", "e", "r", "a", "g", "e">>,
                    <<"m", "i", "d", "p", "o", "i", "n", "t">>})

\* the index of the first c in s, 0 when there is none
RECURSIVE IndexOf(_, _, _)
IndexOf(s, c, i) ==
  IF i > Len(s) THEN 0 ELSE IF s[i] = c THEN i ELSE IndexOf(s, c, i + 1)

\* txt.replace(/.*?:/, ''): drops the text up to the first colon
StripHint(s) ==
  LET k == IndexOf(s, ":", 1)
  IN  IF k = 0 THEN s ELSE SubSeq(s, k + 1, Len(s))

\* replaces every occurrence of the two characters a by the two characters b
RECURSIVE ReplaceAll2(_, _, _)
ReplaceAll2(s, a, b) ==
  IF Len(s) < 2 THEN s
  ELSE IF SubSeq(s, 1, 2) = a THEN b \o ReplaceAll2(SubSeq(s, 3, Len(s)), a, b)
  ELSE <<s[1]>> \o ReplaceAll2(Tail(s), a, b)

\* expr.replace(/<>/g, '!=').replace(/@@/g, '<>')
HideTextSearch(s) ==
  ReplaceAll2(ReplaceAll2(s, <<"<", ">">>, <<"!", "=">>), <<"@", "@">>, <<"<", ">">>)

\* operator.replace(/<>/, '@@'): the first occurrence only
RECURSIVE ReplaceFirst2(_, _, _)
ReplaceFirst2(s, a, b) ==
  IF Len(s) < 2 THEN s
  ELSE IF SubSeq(s, 1, 2) = a THEN b \o SubSeq(s, 3, Len(s))
  ELSE <<s[1]>> \o ReplaceFirst2(Tail(s), a, b)

-----------------------------------------------------------------------------
(* Nodes of the statement tree. *)

createNumberAST(value) == [type |-> "number", value |-> value]

\* parseFloat of a text that is no number
NaNAST == [type |-> "number", value |-> 0, isNaN |-> TRUE]

createColumnAST(column) == [type |-> "column_ref", table |-> NullStr, column |-> column]

createTableAST(table) == [db |-> NullStr, table |-> table, as |-> NullStr]

createBinaryExprAST(operator, left, right, parentheses) ==
  [type |-> "binary_expr", operator |-> operator, left |-> left, right |-> right,
   parentheses |-> parentheses]

BoolAST(b) == [type |-> "bool", value |-> b]

StringAST(s) == [type |-> "string", value |-> s]

NullAST == [type |-> "null"]

\* node.parentheses = true, on any object
WithParentheses(node) ==
  [k \in DOMAIN node \cup {"parentheses"} |->
     IF k = "parentheses" THEN TRUE ELSE node[k]]

\* /^[\'\"]/.test(txt)? txt.slice(1, -1) : txt
dequoteIdentifier(s) ==
  IF Len(s) >= 1 /\ s[1] \in {"'", "\""}
    THEN (IF Len(s) >= 2 THEN SubSeq(s, 2, Len(s) - 1) ELSE <<>>)
    ELSE s

DigitValue(c) ==
  CASE c = "0" -> 0 [] c = "1" -> 1 [] c = "2" -> 2 [] c = "3" -> 3 [] c = "4" -> 4
    [] c = "5" -> 5 [] c = "6" -> 6 [] c = "7" -> 7 [] c = "8" -> 8 [] c = "9" -> 9
    [] OTHER -> 0

\* parseFloat, on the texts NUMBER lets through (one character)
ParseFloatAST(s) ==
  IF s[1] \in DigitChars THEN createNumberAST(DigitValue(s[1])) ELSE NaNAST

-----------------------------------------------------------------------------
(* The grammar parser (an external component), on the expressions of the   *)
(* model: operand, or operand operator operand.                            *)

OpChars == {"<", ">", "=", "!", "@", "+", "-", "/", "%"}

RECURSIVE Trim(_)
Trim(s) ==
  IF s = <<>> THEN s
  ELSE IF s[1] = " " THEN Trim(Tail(s))
  ELSE IF s[Len(s)] = " " THEN Trim(SubSeq(s, 1, Len(s) - 1))
  ELSE s

RECURSIVE DecimalValue(_)
DecimalValue(s) ==
  IF s = <<>> THEN 0
  ELSE 10 * DecimalValue(SubSeq(s, 1, Len(s) - 1)) + DigitValue(s[Len(s)])

ParseError == [type |-> "parse_error"]

FloraParseOperand(s) ==
  IF s = <<>> THEN ParseError
  ELSE IF \A i \in 1..Len(s) : s[i] \in DigitChars THEN createNumberAST(DecimalValue(s))
  ELSE IF Len(s) >= 2 /\ s[1] = "'" /\ s[Len(s)] = "'"
    THEN StringAST(SubSeq(s, 2, Len(s) - 1))
  ELSE IF Len(s) >= 2 /\ s[1] = "\"" /\ s[Len(s)] = "\""
    THEN createColumnAST(SubSeq(s, 2, Len(s) - 1))
  ELSE IF LowerStr(s) = <<"t", "r", "u", "e">> THEN BoolAST(TRUE)
  ELSE IF LowerStr(s) = <<"f", "a", "l", "s", "e">> THEN BoolAST(FALSE)
  ELSE IF \A i \in 1..Len(s) : s[i] \in WordChars THEN createColumnAST(s)
  ELSE ParseError

\* the positions of operator characters
OpPositions(s) == {i \in 1..Len(s) : s[i] \in OpChars}

Min(S) == CHOOSE x \in S : \A y \in S : x <= y

Max(S) == CHOOSE x \in S : \A y \in S : x >= y

\* the parse of `(expr)`: parentheses is set on the root
FloraParseExpr(s) ==
  LET ps == OpPositions(s)
  IN  IF ps = {} THEN
        (IF FloraParseOperand(Trim(s)) = ParseError THEN ParseError
         ELSE WithParentheses(FloraParseOperand(Trim(s))))
      ELSE
        LET i == Min(ps)
            j == Max(ps)
            l == FloraParseOperand(Trim(SubSeq(s, 1, i - 1)))
            r == FloraParseOperand(Trim(SubSeq(s, j + 1, Len(s))))
        IN  IF ps # i..j \/ l = ParseError \/ r = ParseError THEN ParseError
            ELSE createBinaryExprAST(SubSeq(s, i, j), l, r, TRUE)

-----------------------------------------------------------------------------
(* The pure functions of the formalizer. *)

\* the comment and semicolon segments of a text; a text is a sequence of
\* segments here: "sql" (statement text), "/*c*/" (a block comment), "--c"
\* (a line comment, running to the end of its line), "\n", ";"
RECURSIVE DropBlockComments(_)
DropBlockComments(t) ==
  IF t = <<>> THEN t
  ELSE IF t[1] = "/*c*/" THEN DropBlockComments(Tail(t))
  ELSE <<t[1]>> \o DropBlockComments(Tail(t))

RECURSIVE DropLineComments(_, _)
DropLineComments(t, inComment) ==
  IF t = <<>> THEN t
  ELSE IF t[1] = "\n" THEN <<t[1]>> \o DropLineComments(Tail(t), FALSE)
  ELSE IF inComment \/ t[1] = "--c" THEN DropLineComments(Tail(t), TRUE)
  ELSE <<t[1]>> \o DropLineComments(Tail(t), FALSE)

RECURSIVE TrimText(_)
TrimText(t) ==
  IF t = <<>> THEN t
  ELSE IF t[1] = "\n" THEN TrimText(Tail(t))
  ELSE IF t[Len(t)] = "\n" THEN TrimText(SubSeq(t, 1, Len(t) - 1))
  ELSE t

clearSQLComments(t) ==
  LET u == TrimText(DropLineComments(DropBlockComments(t), FALSE))
  IN  IF u # <<>> /\ u[Len(u)] = ";" THEN SubSeq(u, 1, Len(u) - 1) ELSE u

\* Math.min
MathMin(a, b) == IF a <= b THEN a ELSE b

\* a mutant: the first number of the LIMIT (the offset) is read
setLimitASTOffset(tree, max) ==
  LET value == MathMin(IF IsTruthy(tree.limit) THEN tree.limit.items[1].value ELSE max,
                       max)
  IN  [tree EXCEPT !.limit = JsArray(<<createNumberAST(value)>>)]

\* the tree after setLimitAST(ast, max)
setLimitAST(tree, max) ==
  LET value == MathMin(IF IsTruthy(tree.limit) THEN tree.limit.items[2].value ELSE max,
                       max)
  IN  [tree EXCEPT !.limit = JsArray(<<createNumberAST(value)>>)]

RECURSIVE SumChainLeft(_, _, _)
\* a loop that folds from the left: ast = (ast + cols[i])
SumChainLeft(node, cols, i) ==
  IF i > Len(cols) THEN [node EXCEPT !.parentheses = TRUE]
  ELSE SumChainLeft(createBinaryExprAST(<<"+">>, node, cols[i], FALSE), cols, i + 1)

\* the sum as a chain that is nested on the left
createSumExprASTLeft(cols) ==
  IF Len(cols) = 0 THEN <<createNumberAST(0)>>
  ELSE IF Len(cols) = 1 THEN <<cols[1]>>
  ELSE <<SumChainLeft(createBinaryExprAST(<<"+">>, cols[1], cols[2], FALSE), cols, 3)>>

RECURSIVE SumChain(_, _, _)
\* the loop of createSumExprAST: ast.right = (ast.right + cols[i])
SumChain(node, cols, i) ==
  IF i > Len(cols) THEN node
  ELSE SumChain([node EXCEPT !.right =
                   createBinaryExprAST(<<"+">>, node.right, cols[i], FALSE)],
                cols, i + 1)

createSumExprAST(cols) ==
  IF Len(cols) = 0 THEN <<createNumberAST(0)>>
  ELSE IF Len(cols) = 1 THEN <<cols[1]>>
  ELSE <<SumChain(createBinaryExprAST(<<"+">>, cols[1], cols[2], TRUE), cols, 3)>>

createAvgExprAST(cols) ==
  IF Len(cols) = 0 THEN <<createNumberAST(0)>>
  ELSE <<createBinaryExprAST(<<"/">>, createSumExprAST(cols)[1],
                             createNumberAST(Len(cols)), TRUE)>>

\* the where of `SELECT * FROM T WHERE (expr)`
parseExprAST(expr) == FloraParseExpr(HideTextSearch(expr))

parseValueAST(val) ==
  IF NULL(val) THEN NullAST
  ELSE IF BOOL(val) THEN BoolAST(EndsWith(LowerStr(val), <<"t", "r", "u", "e">>))
  ELSE IF NUMBER(val) THEN ParseFloatAST(val)
  ELSE IF STRINGLIT(val) THEN StringAST(SubSeq(val, 2, Len(val) - 1))
  ELSE IF IDENTIFIER(val) THEN createColumnAST(dequoteIdentifier(val))
  ELSE parseExprAST(val)

\* the hint resolveColumnAST reads off a column name
HintOf(name) ==
  IF HINT_ALL(name) THEN "all"
  ELSE IF HINT_SUM(name) THEN "sum"
  ELSE IF HINT_AVG(name) THEN "avg"
  ELSE "null"

\* the name resolveColumnAST passes to the resolution function
NameArg(name) == IF HintOf(name) # "null" THEN StripHint(name) ELSE name

\* what resolveColumnAST returns for the answer ans under hint
resolveColumnAST(hint, ans) ==
  LET nodes == [i \in 1..Len(ans) |-> parseValueAST(ans[i])]
  IN  IF hint \in {"null", "all"} THEN nodes
      ELSE IF hint = "sum" THEN createSumExprAST(nodes)
      ELSE createAvgExprAST(nodes)

\* ans[0]
First(arr) == IF Len(arr) = 0 THEN JsUndefined ELSE arr[1]

\* the alias is kept whatever the number of values
formatColumnFormalizeKeep(col, len, as) == as

\* len>1 && as!=null? as + ': ' + col : as
formatColumnFormalize(col, len, as) ==
  IF len > 1 /\ as # NullStr THEN as \o <<":", " ">> \o col ELSE as

-----------------------------------------------------------------------------
(* Walking the statement tree. *)

\* the keys of a node that processSubexprAST descends into, in key order
ChildKeys(node) ==
  IF node.type = "binary_expr" THEN <<"left", "right">> ELSE <<>>

RECURSIVE RefPaths(_)
\* the paths from node to the column_ref leaves processSubexprAST resolves,
\* in the order their resolution calls are issued
RefPaths(node) ==
  IF node.type = "column_ref" THEN << <<>> >>
  ELSE IF ChildKeys(node) = <<>> THEN <<>>
  ELSE LET l == RefPaths(node.left)
           r == RefPaths(node.right)
       IN  [i \in 1..Len(l) |-> <<"left">> \o l[i]] \o
           [i \in 1..Len(r) |-> <<"right">> \o r[i]]

RECURSIVE GetAt(_, _)
GetAt(node, path) ==
  IF path = <<>> THEN node ELSE GetAt(node[path[1]], Tail(path))

RECURSIVE SetAt(_, _, _)
\* ast[k] = value at the end of path
SetAt(node, path, value) ==
  IF path = <<>> THEN value
  ELSE [node EXCEPT ![path[1]] = SetAt(node[path[1]], Tail(path), value)]

RECURSIVE ContainsType(_, _)
\* whether a node of one of the types occurs in the expression
ContainsType(node, types) ==
  \/ node.type \in types
  \/ ChildKeys(node) # <<>> /\
       (ContainsType(node.left, types) \/ ContainsType(node.right, types))

RECURSIVE Flatten(_)
\* the concatenation of a sequence of sequences
Flatten(ss) == IF ss = <<>> THEN <<>> ELSE ss[1] \o Flatten(Tail(ss))

-----------------------------------------------------------------------------
(* Promise.all: one slot per promise, filled at the promise's own index.   *)

Pending == [done |-> FALSE]

Filled(v) == [done |-> TRUE, v |-> v]

AllFilled(slots) == \A i \in 1..Len(slots) : slots[i].done

SlotValues(slots) == [i \in 1..Len(slots) |-> slots[i].v]

\* a mutant: the result goes to the first free slot (completion order)
PromiseAllPush(slots, i, v) ==
  LET free == {j \in 1..Len(slots) : ~slots[j].done}
  IN  [slots EXCEPT ![Min(free)] = Filled(v)]

PromiseAllStore(slots, i, v) == [slots EXCEPT ![i] = Filled(v)]

-----------------------------------------------------------------------------
(* The serializer (an external component), on the expressions of the model *)

Thrown == [type |-> "thrown"]

ThrownStr == <<"%thrown%">>

DigitChar(d) ==
  CASE d = 0 -> "0" [] d = 1 -> "1" [] d = 2 -> "2" [] d = 3 -> "3" [] d = 4 -> "4"
    [] d = 5 -> "5" [] d = 6 -> "6" [] d = 7 -> "7" [] d = 8 -> "8" [] OTHER -> "9"

RECURSIVE RenderNat(_)
RenderNat(n) ==
  IF n < 10 THEN <<DigitChar(n)>> ELSE RenderNat(n \div 10) \o <<DigitChar(n % 10)>>

RECURSIVE AstToSQLExpr(_)
AstToSQLExpr(node) ==
  CASE node.type = "number" ->
         IF "isNaN" \in DOMAIN node THEN <<"N", "a", "N">> ELSE RenderNat(node.value)
    [] node.type = "string" -> <<"'">> \o node.value \o <<"'">>
    [] node.type = "bool" ->
         IF node.value THEN <<"T", "R", "U", "E">> ELSE <<"F", "A", "L", "S", "E">>
    [] node.type = "null" -> <<"N", "U", "L", "L">>
    [] node.type = "column_ref" -> <<"\"">> \o node.column \o <<"\"">>
    [] node.type = "binary_expr" ->
         LET body == AstToSQLExpr(node.left) \o <<" ">> \o node.operator \o <<" ">> \o
                     AstToSQLExpr(node.right)
         IN  IF node.parentheses THEN <<"(">> \o body \o <<")">> ELSE body
    [] OTHER -> ThrownStr

RECURSIVE DoubleQuotes(_)
\* replace(/([\'\"])/g, '$1$1')
DoubleQuotes(s) ==
  IF s = <<>> THEN s
  ELSE IF s[1] \in {"'", "\""} THEN <<s[1], s[1]>> \o DoubleQuotes(Tail(s))
  ELSE <<s[1]>> \o DoubleQuotes(Tail(s))

\* the serializer reads the type of every node: it throws on undefined
Serializable(node) == ~ContainsType(node, {"js_undefined", "js_null", "parse_error"})

stringifyExprAST(expr) ==
  IF Serializable(expr) THEN DoubleQuotes(AstToSQLExpr(expr)) ELSE ThrownStr

-----------------------------------------------------------------------------
(* The clauses. *)

Range(seq) == {seq[i] : i \in 1..Len(seq)}

\* the entries tweakColumnsAST pushes for one source column
ColumnEntries(col, exps) ==
  [j \in 1..Len(exps) |->
     IF exps[j].type # "column_ref"
       THEN [expr |-> exps[j],
             as |-> IF col.as = NullStr THEN stringifyExprAST(exps[j]) ELSE col.as]
       ELSE [expr |-> exps[j],
             as |-> formatColumnFormalize(exps[j].column, Len(exps), col.as)]]

\* the list `to` of tweakColumnsAST
ColumnsTo(columns, ans) ==
  Flatten([i \in 1..Len(columns) |-> ColumnEntries(columns[i], ans[i])])

\* the list `to` of tweakOrderByAST
OrderByTo(orderby, ans) ==
  Flatten([i \in 1..Len(orderby) |->
             [j \in 1..Len(ans[i]) |-> [expr |-> ans[i][j], type |-> orderby[i].type]]])

\* the list `to` of tweakGroupByAST
GroupByTo(ans) == Flatten(ans)

\* a mutant: an existing WHERE is dropped
forkWhereASTDrop(tree) ==
  [tree EXCEPT !.where =
     createBinaryExprAST(<<"A", "N", "D">>, BoolAST(TRUE), BoolAST(TRUE), FALSE)]

forkWhereAST(tree) ==
  LET asw == createBinaryExprAST(<<"A", "N", "D">>, BoolAST(TRUE), BoolAST(TRUE), FALSE)
  IN  IF IsTruthy(tree.where)
        THEN [tree EXCEPT !.where = [asw EXCEPT !.left = WithParentheses(tree.where)]]
        ELSE [tree EXCEPT !.where = asw]

\* asw.where of appendWhereAST once the operator of its right operand is
\* restored; parsed is that right operand as the parser returns it
FalseOrOf(parsed) ==
  IF parsed = ParseError \/ "operator" \notin DOMAIN parsed THEN Thrown
  ELSE createBinaryExprAST(
         <<"O", "R">>, BoolAST(FALSE),
         [parsed EXCEPT !.operator =
            ReplaceFirst2(parsed.operator, <<"<", ">">>, <<"@", "@">>)],
         FALSE)

\* the where of `SELECT * FROM T WHERE FALSE OR (expr)`, operator restored
FalseOr(expr) == FalseOrOf(FloraParseExpr(HideTextSearch(expr)))

\* a mutant: a later predicate replaces the chain instead of deepening it
SpliceReplace(tree, asw) ==
  IF asw = Thrown THEN Thrown
  ELSE [tree EXCEPT !.where.right = WithParentheses(asw)]

\* the two branches of appendWhereAST, asw being the parsed `FALSE OR (expr)`
Splice(tree, asw) ==
  IF asw = Thrown THEN Thrown
  ELSE IF tree.where.right.type = "bool" /\ tree.where.right.value
    THEN [tree EXCEPT !.where.right = WithParentheses(asw)]
    ELSE [tree EXCEPT !.where.right.right =
            [asw EXCEPT !.left = tree.where.right.right]]

appendWhereAST(tree, expr) == Splice(tree, FalseOr(expr))

RECURSIVE AppendAll(_, _)
\* the loop of tweakFromAST
AppendAll(tree, preds) ==
  IF preds = <<>> \/ tree = Thrown THEN tree
  ELSE AppendAll(appendWhereAST(tree, preds[1]), Tail(preds))

\* ast.from = scn.from.map(v => createTableAST(v))
WithTables(tree, from) ==
  IF tree = Thrown THEN Thrown
  ELSE [tree EXCEPT !.from = [i \in 1..Len(from) |-> createTableAST(from[i])]]

tweakFromAST(tree, scan) ==
  WithTables(AppendAll(forkWhereAST(tree), scan.where), scan.from)

\* Set.add on a set kept in insertion order
SetAdd(seq, v) == IF v \in Range(seq) THEN seq ELSE Append(seq, v)

RECURSIVE ScanFold(_, _)
\* the loops of scanFromAST over the flattened answers
ScanFold(vals, acc) ==
  IF vals = <<>> THEN acc
  ELSE ScanFold(Tail(vals),
         IF IDENTIFIER(vals[1])
           THEN [acc EXCEPT !.from = SetAdd(acc.from, dequoteIdentifier(vals[1]))]
           ELSE [acc EXCEPT !.where = Append(acc.where, vals[1])])

\* a mutant: the tables are not deduplicated
scanFromASTKeepAll(ans) ==
  LET vals == Flatten(ans)
  IN  [from |-> [i \in 1..Len(SelectSeq(vals, IDENTIFIER)) |->
                   dequoteIdentifier(SelectSeq(vals, IDENTIFIER)[i])],
       where |-> ScanFold(vals, [from |-> <<>>, where |-> <<>>]).where]

\* what scanFromAST returns for the answers of its calls
scanFromAST(ans) == ScanFold(Flatten(ans), [from |-> <<>>, where |-> <<>>])

\* if (from.length === 0 && opt.from != null) from.push(opt.from)
WithDefaultFrom(from, options) ==
  IF Len(from) = 0 /\ options.from # UndefinedStr THEN <<options.from>> ELSE from

\* opt.limits? opt.limits[table] || 0 : opt.limit || 0
LimitFor(options, table) ==
  IF IsTruthy(options.limits)
    THEN (IF table \in DOMAIN options.limits.map THEN options.limits.map[table] ELSE 0)
    ELSE options.limit

\* if (ast.from.length === 0) ast.from.push(createTableAST('null'))
WithNullTable(tree) ==
  IF tree = Thrown THEN Thrown
  ELSE IF Len(tree.from) = 0
    THEN [tree EXCEPT !.from = <<createTableAST(<<"n", "u", "l", "l">>)>>]
  ELSE tree

\* if (lim) setLimitAST(ast, lim)
Limited(tree, lim) == IF lim # 0 THEN setLimitAST(tree, lim) ELSE tree

\* const lim = ...; if (lim) setLimitAST(ast, lim)
WithLimit(tree, options) ==
  IF tree = Thrown THEN Thrown
  ELSE Limited(tree, LimitFor(options, tree.from[1].table))

\* the tail of convertToFormalSQL, after await Promise.all(rdy)
FinishTree(tree, scan, options) ==
  WithLimit(WithNullTable(tweakFromAST(tree, scan)), options)

-----------------------------------------------------------------------------
(* The inputs of the model: texts, parsed statements, options, and what    *)
(* the resolution function may answer.                                     *)

X == <<"x">>
Y == <<"y">>
T == <<"t">>
U == <<"u">>
Z == <<"z">>

\* the answers of the model's resolution function are the prefixes, up to
\* MaxVals values, of these lists
ValueLists(name, type) ==
  IF type = "from" THEN
    CASE name = T -> { << <<"\"", "g", "\"">>, <<"g">>, <<"h">> >>,
                       << <<"a", "@", "@", "'", "k", "'">>, <<"b", "<", ">", "1">>, <<"g">> >>,
                       << <<"g">>, <<"a", "=", "1">>, <<"a", "@", "@", "'", "k", "'">> >> }
      [] name = U -> { << <<"h">>, <<"c", "<", "2">>, <<"g">> >> }
      [] OTHER -> { <<name>> }
  ELSE
    CASE Trim(name) = X -> { << <<"a">>, <<"b">>, <<"c">>, <<"f">> >> }
      [] Trim(name) = Y -> { << <<"\"", "d", "\"">>, <<"7">>, <<"e", "_">> >> }
      [] Trim(name) = Z -> { << <<"1", "2">>, <<"e">>, <<"'", "a", "b", "'">> >> }
      [] OTHER -> { <<name>> }

Prefixes(list, n) == {SubSeq(list, 1, k) : k \in 0..MathMin(n, Len(list))}

SelectItem(expr, as) == [expr |-> expr, as |-> as]

OrderItem(expr, type) == [expr |-> expr, type |-> type]

Statement(type, columns, from, where, having, orderby, groupby, limit) ==
  [type |-> type, columns |-> columns,
   from |-> [i \in 1..Len(from) |-> createTableAST(from[i])],
   where |-> where, having |-> having, orderby |-> orderby, groupby |-> groupby,
   limit |-> limit]

Star == JsString(<<"*">>)

Equals(l, r) == createBinaryExprAST(<<"=">>, l, r, FALSE)

LimitClause(offset, count) == JsArray(<<createNumberAST(offset), createNumberAST(count)>>)

Options(from, limit, limits) == [from |-> from, limit |-> limit, limits |-> limits]

JsObject(map) == [type |-> "js_object", map |-> map]

NoOptions == Options(UndefinedStr, 0, JsUndefined)

-----------------------------------------------------------------------------
(* The invocations of the resolution function. *)

ListClauses == {"columns", "orderBy", "groupBy"}

\* fn.call(ths, name-without-hint, type, hint, from)
Call(name, type, from, idx, path) ==
  [txt |-> NameArg(name), type |-> type, hint |-> HintOf(name), from |-> from,
   idx |-> idx, path |-> path, status |-> "pending", ans |-> <<>>]

\* scanFromAST: fn.call(ths, b.table, 'from', null, '') for every table
FromCalls(tree) ==
  [i \in 1..Len(tree.from) |->
     [txt |-> tree.from[i].table, type |-> "from", hint |-> "null",
      from |-> JsString(<<>>), idx |-> i, path |-> <<>>, status |-> "pending",
      ans |-> <<>>]]

\* processExprAST / processSubexprAST: one call per column_ref leaf
ExprCalls(type, from, idx, expr) ==
  LET ps == RefPaths(expr)
  IN  [k \in 1..Len(ps) |-> Call(GetAt(expr, ps[k]).column, type, from, idx, ps[k])]

ListCalls(type, from, exprs) ==
  Flatten([i \in 1..Len(exprs) |-> ExprCalls(type, from, i, exprs[i])])

\* whether convertToFormalSQL calls the tweak of a clause
Present(tree, type) ==
  CASE type = "columns" -> tree.columns.type = "js_array"
    [] type = "orderBy" -> ~IsNullish(tree.orderby)
    [] type = "groupBy" -> ~IsNullish(tree.groupby)
    [] type = "where" -> ~IsNullish(tree.where)
    [] type = "having" -> ~IsNullish(tree.having)

\* the expressions of a list clause
ClauseExprs(tree, type) ==
  IF ~Present(tree, type) THEN <<>>
  ELSE CASE type = "columns" ->
              [i \in 1..Len(tree.columns.items) |-> tree.columns.items[i].expr]
         [] type = "orderBy" ->
              [i \in 1..Len(tree.orderby.items) |-> tree.orderby.items[i].expr]
         [] type = "groupBy" -> tree.groupby.items

\* the calls of the five tweaks, in the order convertToFormalSQL starts them;
\* tweakGroupByAST passes "" for the tables
TweakCalls(tree, from) ==
  ListCalls("columns", JsArray(from), ClauseExprs(tree, "columns")) \o
  (IF Present(tree, "where") THEN ExprCalls("where", JsArray(from), 0, tree.where)
                             ELSE <<>>) \o
  (IF Present(tree, "having") THEN ExprCalls("having", JsArray(from), 0, tree.having)
                              ELSE <<>>) \o
  ListCalls("orderBy", JsArray(from), ClauseExprs(tree, "orderBy")) \o
  ListCalls("groupBy", JsString(<<>>), ClauseExprs(tree, "groupBy"))

\* the slots of a tweak's Promise.all: an expression without column_ref is
\* resolved at once, to itself
InitSlots(exprs) ==
  [i \in 1..Len(exprs) |->
     IF RefPaths(exprs[i]) = <<>> THEN Filled(<<exprs[i]>>) ELSE Pending]

NoSlots == [columns |-> <<>>, orderBy |-> <<>>, groupBy |-> <<>>]

\* ast[k] = ans[0] of processSubexprAST
SetExpr(tree, type, idx, path, value) ==
  CASE type = "columns" ->
         [tree EXCEPT !.columns.items[idx].expr = SetAt(@, path, value)]
    [] type = "orderBy" ->
         [tree EXCEPT !.orderby.items[idx].expr = SetAt(@, path, value)]
    [] type = "groupBy" -> [tree EXCEPT !.groupby.items[idx] = SetAt(@, path, value)]
    [] type = "where" -> [tree EXCEPT !.where = SetAt(@, path, value)]
    [] type = "having" -> [tree EXCEPT !.having = SetAt(@, path, value)]

\* ast.columns = to, ast.orderby = to, ast.groupby = to
Assemble(tree, type, slots) ==
  CASE type = "columns" ->
         [tree EXCEPT !.columns = JsArray(ColumnsTo(tree.columns.items, SlotValues(slots)))]
    [] type = "orderBy" ->
         [tree EXCEPT !.orderby = JsArray(OrderByTo(tree.orderby.items, SlotValues(slots)))]
    [] type = "groupBy" -> [tree EXCEPT !.groupby = JsArray(GroupByTo(SlotValues(slots)))]

\* stringifyExprAST threw while the columns were put together
AssembleThrows(tree, type) ==
  /\ type = "columns"
  /\ tree.columns.type = "js_array"
  /\ \E i \in 1..Len(tree.columns.items) : tree.columns.items[i].as = ThrownStr

AssembleIfReady(tree, type, slots) ==
  IF Present(tree, type) /\ AllFilled(slots[type])
    THEN Assemble(tree, type, slots[type]) ELSE tree

\* a mutant: Promise.all(rdy) that is done with the first call
SomeResolved(cs) == \E i \in 1..Len(cs) : cs[i].status = "resolved"

AllResolved(cs) == \A i \in 1..Len(cs) : cs[i].status = "resolved"

\* what the model's resolution function may answer to a call
Answers(call) ==
  IF run = 2 THEN { <<call.txt>> }
  ELSE UNION {Prefixes(l, MaxVals) : l \in ValueLists(call.txt, call.type)}

-----------------------------------------------------------------------------
(* convertToFormalSQL as a state machine.  A step is what runs between two *)
(* awaits: the entry up to the calls of scanFromAST, and the continuation  *)
(* of each call of the resolution function that resolves or rejects.       *)

\* a mutant: the error carries the text without its comments
UnsupportedErrorCleared(text) ==
  <<"Only SELECT supported <<">> \o clearSQLComments(text) \o <<">>.">>

\* new Error(`Only SELECT supported <<${txt}>>.`)
UnsupportedError(text) == <<"Only SELECT supported <<">> \o text \o <<">>.">>

\* a mutant: a rejection is swallowed
OnRejectIgnore(p) == p

\* an await on a rejected promise throws: the conversion fails
OnReject(p) == "failed"

\* the expressions the serializer walks
TreeExprs(tree) ==
  (IF IsNullish(tree.where) THEN {} ELSE {tree.where}) \cup
  (IF IsNullish(tree.having) THEN {} ELSE {tree.having}) \cup
  Range(ClauseExprs(tree, "columns")) \cup
  Range(ClauseExprs(tree, "orderBy")) \cup
  Range(ClauseExprs(tree, "groupBy"))

\* flora.util.astToSQL(ast) returns
TreeSerializable(tree) == \A e \in TreeExprs(tree) : Serializable(e)

RECURSIVE ContainsOperator(_, _)
ContainsOperator(node, op) ==
  /\ node.type = "binary_expr"
  /\ \/ node.operator = op
     \/ ContainsOperator(node.left, op)
     \/ ContainsOperator(node.right, op)

\* the top of convertToFormalSQL: the type test and the calls of scanFromAST
Begin(tree, text) ==
  /\ tweakAns' = NoSlots
  /\ scn' = [from |-> <<>>, where |-> <<>>]
  /\ IF tree.type # "select"
       THEN /\ pc' = "failed"
            /\ errText' = UnsupportedError(text)
            /\ calls' = <<>>
            /\ scanAns' = <<>>
       ELSE /\ pc' = "scan"
            /\ errText' = <<>>
            /\ calls' = FromCalls(tree)
            /\ scanAns' = [i \in 1..Len(tree.from) |-> Pending]

\* return flora.util.astToSQL(ast), fin being the tree handed over
Returned(tree, fin) ==
  IF fin # Thrown /\ TreeSerializable(fin)
    THEN pc' = "done" /\ ast' = fin /\ out' = fin
    ELSE pc' = "failed" /\ ast' = tree /\ out' = out

\* the tail of convertToFormalSQL and the serialization of the tree
Finished(tree, scan) == Returned(tree, FinishTree(tree, scan, opt))

\* the continuation of scanFromAST: the default table, the start of the
\* tweaks, and the tail when no tweak has to wait
\* the clauses that wait for no call are put together at once
AssembleReady(tree, slots) ==
  AssembleIfReady(AssembleIfReady(AssembleIfReady(tree, "columns", slots),
                                  "orderBy", slots),
                  "groupBy", slots)

\* the tweaks are started: their calls are new, tree is the statement after
\* the clauses that wait for no call
TweaksStarted(cs, scan, new, tree) ==
  /\ scn' = scan
  /\ calls' = cs \o new
  /\ IF AssembleThrows(tree, "columns")
       THEN pc' = "failed" /\ ast' = ast /\ out' = out
       ELSE IF new = <<>> THEN Finished(tree, scan)
       ELSE pc' = "resolve" /\ ast' = tree /\ out' = out

\* from.push(opt.from) on what scanFromAST returned
Scanned(scan) == [from |-> WithDefaultFrom(scan.from, opt), where |-> scan.where]

\* the tweaks see the tables of scan
TweaksOn(cs, scan, slots) ==
  /\ tweakAns' = slots
  /\ TweaksStarted(cs, scan, TweakCalls(ast, scan.from), AssembleReady(ast, slots))

\* the continuation of scanFromAST: the default table, the start of the
\* tweaks, and the tail when no tweak has to wait
ScanDone(slots, cs) ==
  TweaksOn(cs, Scanned(scanFromAST(SlotValues(slots))),
           [type \in ListClauses |-> InitSlots(ClauseExprs(ast, type))])

\* convertToFormalSQL is called
Start ==
  /\ pc = "idle"
  /\ Begin(ast, txt)
  /\ UNCHANGED <<run, txt, ast0, ast, opt, out, out1, ivars, lvars>>

\* a call of scanFromAST resolves with vals
FromResolve ==
  \E i \in 1..Len(calls) : \E vals \in Answers(calls[i]) :
    /\ calls[i].status = "pending"
    /\ calls[i].type = "from"
    /\ scanAns' = PromiseAllStore(scanAns, calls[i].idx, vals)
    /\ IF pc = "scan" /\ AllFilled(scanAns')
         THEN ScanDone(scanAns',
                       [calls EXCEPT ![i].status = "resolved", ![i].ans = vals])
         ELSE /\ calls' = [calls EXCEPT ![i].status = "resolved", ![i].ans = vals]
              /\ UNCHANGED <<pc, ast, out, scn, tweakAns>>
    /\ UNCHANGED <<run, txt, ast0, opt, errText, out1, ivars, lvars>>

\* the calls of one expression of a list clause are all resolved
ItemResolved(cs, type, idx) ==
  \A j \in 1..Len(cs) :
    (cs[j].type = type /\ cs[j].idx = idx) => cs[j].status = "resolved"

\* the end of a resolved call: the clause is put together when its last
\* expression is resolved, the conversion returns when its last call is
ColEnd(c, cs, tree1, slots, tree2) ==
  /\ tweakAns' = slots
  /\ IF AssembleThrows(tree2, c.type)
       THEN pc' = OnReject(pc) /\ ast' = tree1 /\ out' = out
     ELSE IF pc = "resolve" /\ AllResolved(cs)
       THEN Finished(tree2, scn)
     ELSE ast' = tree2 /\ UNCHANGED <<pc, out>>

\* the slot of the expression in its clause's Promise.all
ColSlots(c, cs, res, tree1) ==
  IF c.type \notin ListClauses THEN tweakAns
  ELSE IF c.path = <<>>
    THEN [tweakAns EXCEPT ![c.type] = PromiseAllStore(@, c.idx, res)]
  ELSE IF ItemResolved(cs, c.type, c.idx)
    THEN [tweakAns EXCEPT ![c.type] =
            PromiseAllStore(@, c.idx, <<ClauseExprs(tree1, c.type)[c.idx]>>)]
  ELSE tweakAns

ColStored(c, cs, tree1, slots) ==
  ColEnd(c, cs, tree1, slots,
         IF c.type \in ListClauses THEN AssembleIfReady(tree1, c.type, slots)
                                   ELSE tree1)

ColWritten(c, cs, res, tree1) == ColStored(c, cs, tree1, ColSlots(c, cs, res, tree1))

\* the continuation of resolveColumnAST: ast[k] = ans[0] below the root of
\* an expression, the answer itself at the root of a list clause's expression
ColAnswered(c, cs, res) ==
  ColWritten(c, cs, res,
             IF c.type \in ListClauses /\ c.path = <<>> THEN ast
             ELSE SetExpr(ast, c.type, c.idx, c.path, First(res)))

\* a call of resolveColumnAST resolves with vals
ColResolve ==
  \E i \in 1..Len(calls) : \E vals \in Answers(calls[i]) :
    /\ calls[i].status = "pending"
    /\ calls[i].type # "from"
    /\ IF \E k \in 1..Len(vals) : parseValueAST(vals[k]) = ParseError
         THEN /\ calls' = [calls EXCEPT ![i].status = "threw", ![i].ans = vals]
              /\ pc' = OnReject(pc)
              /\ UNCHANGED <<ast, out, tweakAns>>
         ELSE /\ calls' = [calls EXCEPT ![i].status = "resolved", ![i].ans = vals]
              /\ ColAnswered(calls[i],
                             [calls EXCEPT ![i].status = "resolved", ![i].ans = vals],
                             resolveColumnAST(calls[i].hint, vals))
    /\ UNCHANGED <<run, txt, ast0, opt, scanAns, scn, errText, out1, ivars, lvars>>

\* a call of the resolution function rejects
Reject ==
  \E i \in 1..Len(calls) :
    /\ run = 1
    /\ calls[i].status = "pending"
    /\ calls' = [calls EXCEPT ![i].status = "rejected"]
    /\ pc' = OnReject(pc)
    /\ UNCHANGED <<run, txt, ast0, ast, opt, scanAns, tweakAns, scn, errText, out,
                   out1, ivars, lvars>>

-----------------------------------------------------------------------------
(* The second conversion: convertToFormalSQL on its own output, with a     *)
(* resolution function that answers every name with that name.             *)

\* the statement the parser returns for the serialized tree: a LIMIT of one
\* number reads back as offset 0 and that number
Reparse(tree) ==
  [tree EXCEPT !.limit =
     IF IsNullish(@) THEN @
     ELSE IF Len(@.items) = 1 THEN JsArray(<<createNumberAST(0), @.items[1]>>)
     ELSE @]

\* the parser has no text-search operator: it throws on the output
Reparsable(tree) == \A e \in TreeExprs(tree) : ~ContainsOperator(e, <<"@", "@">>)

Rerun ==
  /\ pc = "idle2"
  /\ IF Reparsable(out1)
       THEN /\ ast' = Reparse(out1)
            /\ Begin(ast', txt)
       ELSE /\ pc' = "failed"
            /\ UNCHANGED <<ast, calls, scanAns, tweakAns, scn, errText>>
  /\ UNCHANGED <<run, txt, ast0, opt, out, out1, ivars, lvars>>

\* the first conversion has returned: its output is the next input
Return ==
  /\ pc = "done"
  /\ run = 1
  /\ pc' = "idle2"
  /\ run' = 2
  /\ out1' = out
  /\ out' = JsNull
  /\ txt' = <<"sql">>
  /\ UNCHANGED <<ast0, ast, opt, calls, scanAns, tweakAns, scn, errText, ivars, lvars>>

-----------------------------------------------------------------------------
(* The inputs. *)

V == <<"v">>
W == <<"w">>
P == <<"p">>

Col(name) == SelectItem(createColumnAST(name), NullStr)

NoClause == JsNull

\* statements whose SELECT list is resolved
ColumnStatements ==
  { Statement("select", JsArray(cols), <<V>>, NoClause, NoClause, NoClause, NoClause,
              NoClause) :
      cols \in { <<Col(X)>>, <<Col(Z)>>, <<Col(X), Col(Y)>>, <<Col(Y), Col(X)>>,
                 <<SelectItem(createColumnAST(X), P), Col(Y)>>,
                 <<SelectItem(createColumnAST(X), P), Col(X)>>,
                 <<SelectItem(createNumberAST(1), NullStr), Col(<<"s", "u", "m", ":", "x">>)>>,
                 <<SelectItem(Equals(createColumnAST(X), createColumnAST(Y)), NullStr)>> } }

\* statements whose tables are resolved to tables and predicates
FromStatements ==
  { Statement("select", Star, from, where, NoClause, NoClause, NoClause, NoClause) :
      from \in { <<T>>, <<T, U>> },
      where \in { NoClause, Equals(createColumnAST(Y), createNumberAST(1)) } }

\* statements with a WHERE, and with the other clauses
WhereStatements ==
  { Statement("select", Star, <<V>>, where, NoClause, NoClause, NoClause, NoClause) :
      where \in { createColumnAST(X), Equals(createColumnAST(X), createNumberAST(1)) } }
  \cup
  { Statement("select", JsArray(<<Col(X)>>), <<V>>, NoClause,
              Equals(createColumnAST(X), createNumberAST(1)),
              JsArray(<<OrderItem(createColumnAST(Y), <<"D", "E", "S", "C">>)>>),
              JsArray(<<createColumnAST(X)>>), NoClause) }

\* statements with and without a LIMIT
LimitStatements ==
  { Statement("select", Star, <<V>>, NoClause, NoClause, NoClause, NoClause, limit) :
      limit \in {NoClause} \cup {LimitClause(0, e) : e \in 1..MaxLimit}
                \cup {LimitClause(MaxLimit, 1)} }

\* the maxima of the options
LimitOptions ==
  { Options(UndefinedStr, m, JsUndefined) : m \in 0..MaxLimit } \cup
  { Options(UndefinedStr, g, JsObject([t \in {tbl} |-> m])) :
      g \in {0, MaxLimit}, tbl \in {V, W}, m \in {1, MaxLimit - 1} } \cup
  { Options(W, 1, JsObject([t \in {W} |-> MaxLimit - 1])) }

\* the texts of a statement that is not a SELECT
OtherTexts ==
  { <<"sql">>, <<"/*c*/", "sql", ";">>, <<"sql", "--c", "\n">>, <<"\n", "sql", "--c">> }

OtherStatements == { [type |-> t] : t \in {"update", "insert", "delete"} }

\* the calls of convertToFormalSQL the model starts from
Inputs ==
  { [txt |-> <<"sql">>, ast |-> s, opt |-> o] :
      s \in ColumnStatements \cup WhereStatements, o \in {NoOptions} } \cup
  { [txt |-> <<"sql">>, ast |-> s, opt |-> o] :
      s \in FromStatements, o \in {NoOptions, Options(W, 0, JsUndefined)} } \cup
  { [txt |-> <<"sql">>, ast |-> s, opt |-> o] :
      s \in LimitStatements, o \in LimitOptions } \cup
  { [txt |-> t, ast |-> s, opt |-> o] :
      t \in OtherTexts, s \in OtherStatements, o \in {NoOptions} }

-----------------------------------------------------------------------------
(* convertToInformalSQL: tokens.  A token value is a text; a number is the *)
(* text JavaScript prints for it.                                          *)

\* the enum TokenType
TokenType ==
  [NONE |-> 0, TEXT |-> 16, NORMAL |-> 17, QUOTED |-> 18, NUMBER |-> 32,
   CARDINAL |-> 33, ORDINAL |-> 34, UNIT |-> 48, MASS |-> 49, ENTITY |-> 64,
   TABLE |-> 65, COLUMN |-> 66, ROW |-> 67, BRACKET |-> 80, OPEN |-> 81,
   CLOSE |-> 82, SEPARATOR |-> 96, OPERATOR |-> 112, UNARY |-> 113,
   BINARY |-> 114, TERNARY |-> 115, FUNCTION |-> 128, KEYWORD |-> 144,
   EXPRESSION |-> 160, VALUE |-> 161, BOOLEAN |-> 162]

createToken(type, value, hint) == [type |-> type, value |-> value, hint |-> hint]

\* type & 0xF0
Family(type) == (type \div 16) * 16

\* type & 0xF
Variant(type) == type % 16

RECURSIVE BitAnd(_, _)
\* a & b
BitAnd(a, b) ==
  IF a = 0 \/ b = 0 THEN 0
  ELSE 2 * BitAnd(a \div 2, b \div 2) + (IF a % 2 = 1 /\ b % 2 = 1 THEN 1 ELSE 0)

\* whether sub occurs in s
Contains(s, sub) ==
  \E k \in 1..(Len(s) - Len(sub) + 1) : SubSeq(s, k, k + Len(sub) - 1) = sub

\* the value patterns of the rules: a regular expression that asks for one of
\* some texts anywhere in the value (Sub, and SubI under the /i flag), for a
\* character of a class (Char), for a character outside a class (NotChar);
\* Any is the null pattern
Sub(texts) == [kind |-> "sub", arg |-> texts]

SubI(texts) == [kind |-> "subi", arg |-> texts]

Char(chars) == [kind |-> "char", arg |-> chars]

NotChar(chars) == [kind |-> "notchar", arg |-> chars]

AnyValue == [kind |-> "any"]

\* val[j]==null || val[j].test(value)
Test(pattern, value) ==
  CASE pattern.kind = "any" -> TRUE
    [] pattern.kind = "sub" -> \E x \in pattern.arg : Contains(value, x)
    [] pattern.kind = "subi" -> \E x \in pattern.arg : Contains(LowerStr(value), x)
    [] pattern.kind = "char" -> \E k \in 1..Len(value) : value[k] \in pattern.arg
    [] pattern.kind = "notchar" -> \E k \in 1..Len(value) : value[k] \notin pattern.arg

\* one rule of a stage
Rule(t, v, f) == [t |-> t, v |-> v, f |-> f]

\* the InformalizeState at the start of processTokensInformalize
EmptyState ==
  [columns |-> <<>>, from |-> <<>>, groupBy |-> <<>>, orderBy |-> <<>>,
   where |-> <<>>, having |-> <<>>, limit |-> <<"0">>, columnsUsed |-> <<>>,
   reverse |-> FALSE, hints |-> <<>>]

\* what a rule's function does: the state after it, and the tokens it
\* returns (none for null, one for a token, several for an array)
Did(s, ans) == [s |-> s, ans |-> ans]

Push(s, field, text) == [s EXCEPT ![field] = Append(@, text)]

\* a token without hint
Tok(type, value) == createToken(type, value, NullStr)

\* s.limit = value
SetLimit(s, value) == [s EXCEPT !.limit = value]

\* s.limit = value; s.reverse = !s.reverse
SetLimitReverse(s, value) == [s EXCEPT !.limit = value, !.reverse = ~s.reverse]

\* the number of hundredths c/100 as JavaScript prints it
RenderHundredths(c) ==
  IF c % 100 = 0 THEN RenderNat(c \div 100)
  ELSE IF c % 10 = 0 THEN RenderNat(c \div 100) \o <<".">> \o RenderNat((c % 100) \div 10)
  ELSE RenderNat(c \div 100) \o <<".">> \o RenderNat((c % 100) \div 10) \o RenderNat(c % 10)

\* whether the text is that of a natural number
IsNat(value) == Len(value) > 0 /\ \A k \in 1..Len(value) : value[k] \in DigitChars

\* a/b as JavaScript prints it, where that is a number of at most two
\* decimals; any other quotient stays written as the division
Quotient(a, b) ==
  IF IsNat(a) /\ IsNat(b) /\ DecimalValue(b) > 0
       /\ (100 * DecimalValue(a)) % DecimalValue(b) = 0
  THEN RenderHundredths((100 * DecimalValue(a)) \div DecimalValue(b))
  ELSE a \o <<"/">> \o b

\* a*b as JavaScript prints it for natural numbers; any other product stays
\* written as the multiplication
Product(a, b) ==
  IF IsNat(a) /\ IsNat(b) THEN RenderNat(DecimalValue(a) * DecimalValue(b))
  ELSE a \o <<"*">> \o b

\* s.limit > 0, for the numbers the tokens carry
Positive(value) ==
  /\ Len(value) > 0
  /\ value[1] # "-"
  /\ \E k \in 1..Len(value) : value[k] \in DigitChars \ {"0"}

\* `"${value}"`
Quoted(value) == <<"\"">> \o value \o <<"\"">>

\* ASC or DESC, the other way round when s.reverse is set
Direction(s, asc) == IF asc # s.reverse THEN <<"A", "S", "C">> ELSE <<"D", "E", "S", "C">>

\* `${a} ${b}`
Sp(a, b) == a \o <<" ">> \o b

\* `${a} ${b} ${c}`
Sp3(a, b, c) == a \o <<" ">> \o b \o <<" ">> \o c

\* t[k].value
Val(t, k) == t[k].value

\* the quotient value/100 a PER rule prints
Percent(value) == Quotient(value, <<"1", "0", "0">>)

\* the functions of the NULLORDER rules
NullOrderF(k, s, t, i) ==
  CASE k = 1 -> Did(s, <<Tok(TokenType.KEYWORD, <<"N", "U", "L", "L", "S", " ", "F", "I", "R", "S", "T">>)>>)
    [] k = 2 -> Did(s, <<Tok(TokenType.KEYWORD, <<"N", "U", "L", "L", "S", " ">> \o UpperStr(Val(t, i + 2)))>>)

\* the functions of the NUMBER rules
NumberF(k, s, t, i) ==
  CASE k = 1 -> Did(s, <<Tok(TokenType.CARDINAL, Quotient(Val(t, i), Val(t, i + 1)))>>)
    [] k = 2 -> Did(s, <<Tok(TokenType.CARDINAL, Product(Val(t, i), Val(t, i + 1)))>>)

\* the functions of the LIMIT rules
LimitF(k, s, t, i) ==
  CASE k = 1 -> Did(SetLimit(s, Val(t, i + 1)), <<>>)
    [] k = 2 -> Did(SetLimit(s, Val(t, i)), <<>>)
    [] k = 3 -> Did(SetLimitReverse(s, Val(t, i + 1)), <<>>)
    [] k = 4 -> Did(SetLimitReverse(s, Val(t, i)), <<>>)

\* `("${column}"*${value/100})`
PerExpr(column, value) ==
  <<"(">> \o Quoted(column) \o <<"*">> \o Percent(value) \o <<")">>

\* `("${column}"/${value})`
UnitExpr(column, value) == <<"(">> \o Quoted(column) \o <<"/">> \o value \o <<")">>

\* the functions of the VALUE rules
ValueF(k, s, t, i) ==
  CASE k = 1 -> Did(s, <<Tok(TokenType.COLUMN, <<"a", "l", "l", ":", " ">> \o Val(t, i + 2))>>)
    [] k = 2 -> Did(s, <<Tok(TokenType.COLUMN, <<"s", "u", "m", ":", " ">> \o Val(t, i + 2))>>)
    [] k = 3 -> Did(s, <<Tok(TokenType.COLUMN, <<"a", "v", "g", ":", " ">> \o Val(t, i + 2))>>)
    [] k \in {4, 5} ->
         Did(Push(s, "columnsUsed", Quoted(Val(t, i))),
             <<Tok(TokenType.EXPRESSION, PerExpr(Val(t, i), Val(t, i + 2)))>>)
    [] k = 6 ->
         Did(Push(s, "columnsUsed", Quoted(Val(t, i))),
             <<Tok(TokenType.EXPRESSION, UnitExpr(Val(t, i), Val(t, i + 2)))>>)
    [] k = 7 ->
         Did(Push(s, "columnsUsed", Quoted(Val(t, i))),
             <<Tok(TokenType.VALUE, Quoted(Val(t, i)))>>)
    [] k = 8 -> Did(s, <<Tok(TokenType.VALUE, Val(t, i))>>)
    [] k = 9 -> Did(s, <<Tok(TokenType.VALUE, <<"'">> \o Val(t, i) \o <<"'">>)>>)
    [] k = 10 -> Did(s, <<Tok(TokenType.VALUE, Val(t, i))>>)
    [] k = 11 -> Did(s, <<Tok(TokenType.BOOLEAN, Val(t, i))>>)

\* `${a} ${b} ${c} ${word} ${d}`
Sp5(a, b, c, word, d) == Sp3(a, b, c) \o <<" ">> \o Sp(word, d)

\* the answer of the two rules that spread one comparison over two values:
\* the keyword and the two comparisons joined by AND at the end of the
\* tokens, the six tokens unchanged anywhere else
Spread(t, i, first, second) ==
  IF i + 5 >= Len(t)
  THEN <<t[i], Tok(TokenType.BOOLEAN, first \o <<" ", "A", "N", "D", " ">> \o second)>>
  ELSE SubSeq(t, i, i + 5)

\* the functions of the EXPRESSION rules
ExpressionF(k, s, t, i) ==
  CASE k = 1 -> Did(s, <<>>)
    [] k = 2 ->
         Did(s, <<Tok(TokenType.EXPRESSION, Val(t, i) \o <<",", " ">> \o Val(t, i + 1)), t[i + 2]>>)
    [] k = 3 -> Did(s, <<Tok(TokenType.EXPRESSION, Val(t, i) \o <<"(", ")">>)>>)
    [] k = 4 ->
         Did(s, <<Tok(TokenType.EXPRESSION, Val(t, i) \o <<"(">> \o Val(t, i + 2) \o <<")">>)>>)
    [] k = 5 ->
         Did(s, <<Tok(TokenType.EXPRESSION, Val(t, i) \o <<"(">> \o Val(t, i + 1) \o <<")">>)>>)
    [] k = 6 -> Did(s, <<Tok(TokenType.EXPRESSION, <<"(">> \o Val(t, i + 1) \o <<")">>)>>)
    [] k = 7 -> Did(s, <<t[i], Tok(t[i + 2].type, Val(t, i + 1) \o Val(t, i + 2))>>)
    [] k = 8 ->
         Did(s, <<Tok(BitAnd(t[i].type, t[i + 2].type),
                      <<"p", "o", "w", "e", "r", "(">> \o Val(t, i) \o <<",", " ", " ">> \o Val(t, i + 2) \o <<")">>)>>)
    [] k \in {9, 10} ->
         Did(s, <<Tok(BitAnd(t[i].type, t[i + 2].type),
                      Sp3(Val(t, i), Val(t, i + 1), Val(t, i + 2)))>>)
    [] k = 11 -> Did(s, <<Tok(t[i + 1].type, Sp(Val(t, i), Val(t, i + 1)))>>)
    [] k = 12 -> Did(s, <<Tok(TokenType.BOOLEAN, Sp(Val(t, i), Val(t, i + 1)))>>)
    [] k = 13 ->
         Did(s, <<Tok(TokenType.VALUE, Sp3(Val(t, i), Val(t, i + 1), Val(t, i + 2)))>>)
    [] k = 14 ->
         Did(s, <<Tok(TokenType.BOOLEAN,
                      Sp5(Val(t, i), Val(t, i + 1), Val(t, i + 2), <<"A", "N", "D">>, Val(t, i + 4)))>>)
    [] k = 15 ->
         Did(s, <<Tok(TokenType.BOOLEAN,
                      Sp5(Val(t, i), Val(t, i + 1), Val(t, i + 2), <<"A", "N", "D">>, Val(t, i + 3)))>>)
    [] k = 16 ->
         Did(s, <<Tok(TokenType.BOOLEAN,
                      Sp5(Val(t, i), Val(t, i + 1), Val(t, i + 2), <<"E", "S", "C", "A", "P", "E">>, Val(t, i + 4)))>>)
    [] k = 17 ->
         Did(s, Spread(t, i, Sp3(Val(t, i + 1), Val(t, i + 2), Val(t, i + 3)),
                             Sp3(Val(t, i + 1), Val(t, i + 2), Val(t, i + 5))))
    [] k = 18 ->
         Did(s, Spread(t, i, Sp3(Val(t, i + 1), Val(t, i + 4), Val(t, i + 5)),
                             Sp3(Val(t, i + 3), Val(t, i + 4), Val(t, i + 4))))
    [] k = 19 ->
         Did(s, <<Tok(TokenType.BOOLEAN, Sp3(Val(t, i), Val(t, i + 1), Val(t, i + 2)))>>)
    [] k = 20 -> Did(s, <<Tok(TokenType.BOOLEAN, Sp(Val(t, i), Val(t, i + 1)))>>)
    [] k = 21 -> Did(s, <<Tok(TokenType.VALUE, Val(t, i) \o <<" ", "+", " ">> \o Val(t, i + 2))>>)
    [] k = 22 -> Did(Push(s, "columnsUsed", Val(t, i + 1)), <<t[i + 1]>>)
    [] k = 23 ->
         Did(s, <<Tok(TokenType.BOOLEAN, Sp3(Val(t, i), Val(t, i + 1), Val(t, i + 2)))>>)

\* s.orderBy.push(`${expr} ${direction}`)
Ordered(s, expr, asc) == Push(s, "orderBy", Sp(expr, Direction(s, asc)))

\* s.orderBy.push(`${expr} ${direction} ${nulls}`)
OrderedNulls(s, expr, asc, nulls) ==
  Push(s, "orderBy", Sp3(expr, Direction(s, asc), nulls))

\* the functions of the ORDERBY rules
OrderByF(k, s, t, i) ==
  CASE k = 1 -> Did(OrderedNulls(s, Val(t, i), FALSE, Val(t, i + 2)), <<>>)
    [] k = 2 -> Did(OrderedNulls(s, Val(t, i), TRUE, Val(t, i + 2)), <<>>)
    [] k = 3 -> Did(OrderedNulls(s, Val(t, i + 1), FALSE, Val(t, i + 2)), <<>>)
    [] k = 4 -> Did(OrderedNulls(s, Val(t, i + 1), TRUE, Val(t, i + 2)), <<>>)
    [] k = 5 -> Did(Ordered(s, Val(t, i + 1), FALSE), <<>>)
    [] k = 6 -> Did(Ordered(s, Val(t, i + 1), TRUE), <<>>)
    [] k = 7 -> Did(OrderedNulls(s, Val(t, i), TRUE, Val(t, i + 1)), <<>>)
    [] k = 8 -> Did(OrderedNulls(s, Val(t, i + 1), TRUE, Val(t, i)), <<>>)
    [] k = 9 -> Did(Ordered(s, Val(t, i), FALSE), <<>>)
    [] k = 10 -> Did(Ordered(s, Val(t, i + 1), FALSE), <<>>)
    [] k = 11 -> Did(Ordered(s, Val(t, i), TRUE), <<>>)
    [] k = 12 -> Did(Ordered(s, Val(t, i + 1), TRUE), <<>>)
    [] k = 13 -> Did(Ordered(s, Val(t, i + 1), FALSE), <<>>)
    [] k = 14 -> Did(Ordered(s, Val(t, i + 1), TRUE), <<>>)
    [] k = 15 -> Did(Ordered(s, Val(t, i), FALSE), <<>>)
    [] k = 16 -> Did(Ordered(s, Val(t, i), TRUE), <<>>)
    [] k = 17 -> Did(Ordered(s, Val(t, i + 1), TRUE), <<t[i]>>)

\* the function of the GROUPBY rule
GroupByF(k, s, t, i) == Did(Push(s, "groupBy", Val(t, i + 1)), <<t[i]>>)

\* s[field] += text
Add(s, field, text) == [s EXCEPT ![field] = @ \o text]

\* `${word} (NOT ${expr})`
NotCond(word, expr) == word \o <<" ", "(", "N", "O", "T", " ">> \o expr \o <<")">>

\* `${word} (${expr})`
Cond(word, expr) == word \o <<" ", "(">> \o expr \o <<")">>

\* the functions of the HAVING rules (field having) and of the WHERE rules
\* (field where)
ConditionF(field, k, s, t, i) ==
  CASE k = 1 -> Did(Add(s, field, NotCond(Val(t, i), Val(t, i + 3))), <<>>)
    [] k = 2 -> Did(Add(s, field, NotCond(<<"A", "N", "D">>, Val(t, i + 2))), <<>>)
    [] k = 3 -> Did(Add(s, field, Cond(Val(t, i), Val(t, i + 2))), <<>>)
    [] k = 4 -> Did(Add(s, field, Cond(<<"A", "N", "D">>, Val(t, i + 1))), <<>>)

\* the functions of the FROM rules
FromF(k, s, t, i) ==
  CASE k = 1 -> Did(Push(s, "columns", <<"*">>), <<>>)
    [] k = 2 ->
         IF i # Len(t) \/ Len(s.groupBy) # 0 THEN Did(s, <<t[i]>>)
         ELSE Did(Push(s, "from", <<"\"", "g", "r", "o", "u", "p", "s", "\"">>), <<>>)
    [] k \in {3, 4} -> Did(Push(s, "from", Quoted(Val(t, i))), <<>>)

\* the functions of the COLUMN rules
ColumnF(k, s, t, i) ==
  CASE k = 1 ->
         Did(Push(s, "columns",
                  Sp3(Val(t, i + 1), Val(t, i + 2), <<"A", "S">>) \o <<" ">> \o Val(t, i + 4)),
             <<t[i]>>)
    [] k = 2 -> Did(Push(s, "columns", Sp(Val(t, i + 1), Val(t, i + 2))), <<t[i]>>)
    [] k = 3 -> Did(Push(s, "columns", Sp3(Val(t, i + 1), <<"A", "S">>, Val(t, i + 3))), <<t[i]>>)
    [] k = 4 -> Did(Push(s, "columns", Val(t, i + 1)), <<t[i]>>)
    [] k = 5 -> Did(Push(s, "columns", <<"*">>), <<>>)
    [] k = 6 ->
         IF i # Len(t) THEN Did(s, <<t[i]>>)
         ELSE Did(Push(s, "columns", <<"*">>), <<>>)

\* substage.f(state, tokens, i): f names the stage and the rule in it
Act(f, s, t, i) ==
  CASE f[1] = "NULLORDER" -> NullOrderF(f[2], s, t, i)
    [] f[1] = "NUMBER" -> NumberF(f[2], s, t, i)
    [] f[1] = "LIMIT" -> LimitF(f[2], s, t, i)
    [] f[1] = "VALUE" -> ValueF(f[2], s, t, i)
    [] f[1] = "EXPRESSION" -> ExpressionF(f[2], s, t, i)
    [] f[1] = "ORDERBY" -> OrderByF(f[2], s, t, i)
    [] f[1] = "GROUPBY" -> GroupByF(f[2], s, t, i)
    [] f[1] = "HAVING" -> ConditionF("having", f[2], s, t, i)
    [] f[1] = "WHERE" -> ConditionF("where", f[2], s, t, i)
    [] f[1] = "FROM" -> FromF(f[2], s, t, i)
    [] f[1] = "COLUMN" -> ColumnF(f[2], s, t, i)

\* the rules of a stage, from the type and value patterns of each
Rules(stage, list) ==
  [k \in 1..Len(list) |-> Rule(list[k][1], list[k][2], <<stage, k>>)]

\* the regular expressions that the rules share
HasSELECT == Sub({<<"S", "E", "L", "E", "C", "T">>})

HasNULL == Sub({<<"N", "U", "L", "L">>})

HasAscOrLimit == Sub({<<"A", "S", "C">>, <<"L", "I", "M", "I", "T">>})

\* /(DESC )?LIMIT/
HasLimit == Sub({<<"L", "I", "M", "I", "T">>, <<"D", "E", "S", "C", " ", "L", "I", "M", "I", "T">>})

HasALL == Sub({<<"A", "L", "L">>})

HasTYPE == Sub({<<"T", "Y", "P", "E">>})

HasPER == Sub({<<"P", "E", "R">>})

HasAND == Sub({<<"A", "N", "D">>})

HasOrAnd == Sub({<<"O", "R">>, <<"A", "N", "D">>})

HasNOT == Sub({<<"N", "O", "T">>})

HasAS == Sub({<<"A", "S">>})

HasDESC == Sub({<<"D", "E", "S", "C">>})

HasASC == Sub({<<"A", "S", "C">>})

\* /NULLS (FIRST|LAST)/
HasNulls == Sub({<<"N", "U", "L", "L", "S", " ", "F", "I", "R", "S", "T">>, <<"N", "U", "L", "L", "S", " ", "L", "A", "S", "T">>})

\* />|>=/
HasGreater == Sub({<<">">>, <<">", "=">>})

\* /<|<=/
HasLess == Sub({<<"<">>, <<"<", "=">>})

\* /[^(OR)|(AND)]/
NotOrAndBar == NotChar({"(", "O", "R", ")", "|", "A", "N", "D"})

\* /[^(OR)(AND)]/
NotOrAnd == NotChar({"(", "O", "R", ")", "A", "N", "D"})

\* \s
SpaceChars == {" ", "\t", "\n", "\r"}

NULLORDER ==
  Rules("NULLORDER",
    << <<<<TokenType.KEYWORD, TokenType.KEYWORD, TokenType.ORDINAL>>,
         <<HasSELECT, HasNULL, Sub({<<"1">>})>>>>,
       <<<<TokenType.KEYWORD, TokenType.KEYWORD, TokenType.TEXT>>,
         <<HasSELECT, HasNULL, SubI({<<"l", "a", "s", "t">>, <<"f", "i", "r", "s", "t">>})>>>> >>)

NUMBER_RULES ==
  Rules("NUMBER",
    << <<<<TokenType.CARDINAL, TokenType.ORDINAL>>, <<AnyValue, AnyValue>>>>,
       <<<<TokenType.CARDINAL, TokenType.UNIT>>, <<AnyValue, AnyValue>>>> >>)

LIMIT ==
  Rules("LIMIT",
    << <<<<TokenType.KEYWORD, TokenType.NUMBER>>, <<HasAscOrLimit, AnyValue>>>>,
       <<<<TokenType.NUMBER, TokenType.KEYWORD>>, <<AnyValue, HasAscOrLimit>>>>,
       <<<<TokenType.KEYWORD, TokenType.NUMBER>>, <<HasLimit, AnyValue>>>>,
       <<<<TokenType.NUMBER, TokenType.KEYWORD>>, <<AnyValue, HasLimit>>>> >>)

VALUE ==
  Rules("VALUE",
    << <<<<TokenType.OPERATOR, TokenType.KEYWORD, TokenType.COLUMN>>,
         <<HasALL, HasTYPE, AnyValue>>>>,
       <<<<TokenType.OPERATOR, TokenType.KEYWORD, TokenType.COLUMN>>,
         <<Sub({<<"+">>}), HasTYPE, AnyValue>>>>,
       <<<<TokenType.FUNCTION, TokenType.KEYWORD, TokenType.COLUMN>>,
         <<Sub({<<"a", "v", "g">>}), HasTYPE, AnyValue>>>>,
       <<<<TokenType.COLUMN, TokenType.KEYWORD, TokenType.CARDINAL>>,
         <<AnyValue, HasPER, AnyValue>>>>,
       <<<<TokenType.COLUMN, TokenType.KEYWORD, TokenType.UNIT>>,
         <<AnyValue, HasPER, AnyValue>>>>,
       <<<<TokenType.COLUMN, TokenType.KEYWORD, TokenType.UNIT>>,
         <<AnyValue, Sub({<<"A", "S">>, <<"I", "N">>}), AnyValue>>>>,
       <<<<TokenType.COLUMN>>, <<AnyValue>>>>,
       <<<<TokenType.NUMBER>>, <<AnyValue>>>>,
       <<<<TokenType.TEXT>>, <<AnyValue>>>>,
       <<<<TokenType.KEYWORD>>, <<HasNULL>>>>,
       <<<<TokenType.KEYWORD>>, <<Sub({<<"T", "R", "U", "E">>, <<"F", "A", "L", "S", "E">>})>>>> >>)

\* the type patterns that the EXPRESSION rules share
ExprBinaryExpr == <<TokenType.EXPRESSION, TokenType.BINARY, TokenType.EXPRESSION>>

Any3 == <<AnyValue, AnyValue, AnyValue>>

EXPRESSION ==
  Rules("EXPRESSION",
    << <<<<TokenType.OPEN, TokenType.CLOSE>>, <<AnyValue, AnyValue>>>>,
       <<<<TokenType.EXPRESSION, TokenType.EXPRESSION, TokenType.CLOSE>>, Any3>>,
       <<<<TokenType.FUNCTION>>, <<Sub({<<"p", "i">>, <<"r", "a", "n", "d", "o", "m">>})>>>>,
       <<<<TokenType.FUNCTION, TokenType.OPEN, TokenType.EXPRESSION, TokenType.CLOSE>>,
         <<AnyValue, AnyValue, AnyValue, AnyValue>>>>,
       <<<<TokenType.FUNCTION, TokenType.EXPRESSION>>, <<AnyValue, AnyValue>>>>,
       <<<<TokenType.OPEN, TokenType.EXPRESSION, TokenType.CLOSE>>, Any3>>,
       <<<<TokenType.OPERATOR, TokenType.BINARY, TokenType.EXPRESSION>>,
         <<AnyValue, Sub({<<"+">>, <<"-">>}), AnyValue>>>>,
       <<ExprBinaryExpr, <<AnyValue, Sub({<<"^">>}), AnyValue>>>>,
       <<ExprBinaryExpr, <<AnyValue, Char({"*", "/", "%"}), AnyValue>>>>,
       <<ExprBinaryExpr, <<AnyValue, Char({"+", "-"}), AnyValue>>>>,
       <<<<TokenType.UNARY, TokenType.EXPRESSION>>,
         <<NotChar({"(", "N", "O", "T", ")"}), AnyValue>>>>,
       <<<<TokenType.EXPRESSION, TokenType.UNARY>>, <<AnyValue, Sub({<<"I", "S">>})>>>>,
       <<ExprBinaryExpr,
         <<AnyValue, NotChar(WordChars \cup SpaceChars \cup {"=", "!", "<", ">"}), AnyValue>>>>,
       <<<<TokenType.EXPRESSION, TokenType.TERNARY, TokenType.EXPRESSION,
           TokenType.OPERATOR, TokenType.EXPRESSION>>,
         <<AnyValue, AnyValue, AnyValue, HasAND, AnyValue>>>>,
       <<<<TokenType.EXPRESSION, TokenType.TERNARY, TokenType.EXPRESSION,
           TokenType.EXPRESSION>>,
         <<AnyValue, AnyValue, AnyValue, AnyValue>>>>,
       <<<<TokenType.EXPRESSION, TokenType.BINARY, TokenType.EXPRESSION,
           TokenType.OPERATOR, TokenType.EXPRESSION>>,
         <<AnyValue, AnyValue, AnyValue, Sub({<<"E", "S", "C", "A", "P", "E">>}), AnyValue>>>>,
       <<<<TokenType.KEYWORD, TokenType.VALUE, TokenType.BINARY, TokenType.VALUE,
           TokenType.OPERATOR, TokenType.VALUE>>,
         <<AnyValue, AnyValue, NotOrAndBar, AnyValue, HasOrAnd, AnyValue>>>>,
       <<<<TokenType.KEYWORD, TokenType.VALUE, TokenType.OPERATOR, TokenType.VALUE,
           TokenType.BINARY, TokenType.VALUE>>,
         <<AnyValue, AnyValue, HasOrAnd, AnyValue, NotOrAndBar, AnyValue>>>>,
       <<ExprBinaryExpr, <<AnyValue, NotOrAnd, AnyValue>>>>,
       <<<<TokenType.UNARY, TokenType.EXPRESSION>>, <<AnyValue, AnyValue>>>>,
       <<<<TokenType.VALUE, TokenType.BINARY, TokenType.VALUE>>,
         <<AnyValue, HasAND, AnyValue>>>>,
       <<<<TokenType.BINARY, TokenType.VALUE>>, <<HasAND, AnyValue>>>>,
       <<ExprBinaryExpr, Any3>> >>)

\* the type patterns that the ORDERBY rules share
ExprKeyword == <<TokenType.EXPRESSION, TokenType.KEYWORD>>

KeywordExpr == <<TokenType.KEYWORD, TokenType.EXPRESSION>>

ORDERBY ==
  Rules("ORDERBY",
    << <<<<TokenType.EXPRESSION, TokenType.KEYWORD, TokenType.KEYWORD>>,
         <<AnyValue, HasDESC, HasNulls>>>>,
       <<<<TokenType.EXPRESSION, TokenType.KEYWORD, TokenType.KEYWORD>>,
         <<AnyValue, HasASC, HasNulls>>>>,
       <<<<TokenType.KEYWORD, TokenType.EXPRESSION, TokenType.KEYWORD>>,
         <<HasDESC, AnyValue, HasNulls>>>>,
       <<<<TokenType.KEYWORD, TokenType.EXPRESSION, TokenType.KEYWORD>>,
         <<HasASC, AnyValue, HasNulls>>>>,
       <<<<TokenType.OPERATOR, TokenType.OPERATOR, TokenType.EXPRESSION>>,
         <<HasGreater, Sub({<<"I", "N">>}), AnyValue>>>>,
       <<<<TokenType.OPERATOR, TokenType.OPERATOR, TokenType.EXPRESSION>>,
         <<HasLess, Sub({<<"I", "N">>}), AnyValue>>>>,
       <<ExprKeyword, <<AnyValue, HasNulls>>>>,
       <<KeywordExpr, <<HasNulls, AnyValue>>>>,
       <<ExprKeyword, <<AnyValue, HasDESC>>>>,
       <<KeywordExpr, <<HasDESC, AnyValue>>>>,
       <<ExprKeyword, <<AnyValue, HasASC>>>>,
       <<KeywordExpr, <<HasASC, AnyValue>>>>,
       <<<<TokenType.OPERATOR, TokenType.EXPRESSION>>, <<HasGreater, AnyValue>>>>,
       <<<<TokenType.OPERATOR, TokenType.EXPRESSION>>, <<HasLess, AnyValue>>>>,
       <<<<TokenType.EXPRESSION, TokenType.OPERATOR>>, <<AnyValue, HasGreater>>>>,
       <<<<TokenType.EXPRESSION, TokenType.OPERATOR>>, <<AnyValue, HasLess>>>>,
       <<KeywordExpr, <<Sub({<<"O", "R", "D", "E", "R", " ", "B", "Y">>}), AnyValue>>>> >>)

GROUPBY == Rules("GROUPBY", << <<KeywordExpr, <<Sub({<<"G", "R", "O", "U", "P", " ", "B", "Y">>}), AnyValue>>>> >>)

\* the four rules of HAVING and of WHERE, which differ in the keyword
ConditionRules(stage, keyword) ==
  Rules(stage,
    << <<<<TokenType.OPERATOR, TokenType.OPERATOR, TokenType.KEYWORD, TokenType.EXPRESSION>>,
         <<HasOrAnd, HasNOT, Sub({keyword}), AnyValue>>>>,
       <<<<TokenType.OPERATOR, TokenType.KEYWORD, TokenType.EXPRESSION>>,
         <<HasNOT, Sub({keyword}), AnyValue>>>>,
       <<<<TokenType.OPERATOR, TokenType.KEYWORD, TokenType.EXPRESSION>>,
         <<HasOrAnd, Sub({keyword}), AnyValue>>>>,
       <<KeywordExpr, <<Sub({keyword}), AnyValue>>>> >>)

HAVING == ConditionRules("HAVING", <<"H", "A", "V", "I", "N", "G">>)

WHERE == ConditionRules("WHERE", <<"W", "H", "E", "R", "E">>)

FROM ==
  Rules("FROM",
    << <<<<TokenType.OPERATOR, TokenType.ENTITY, TokenType.OPERATOR>>,
         <<HasALL, SubI({<<"f", "i", "e", "l", "d">>, <<"c", "o", "l", "u", "m", "n">>}), AnyValue>>>>,
       <<<<TokenType.KEYWORD>>, <<Sub({<<"G", "R", "O", "U", "P", " ", "B", "Y">>})>>>>,
       <<<<TokenType.TABLE>>, <<AnyValue>>>>,
       <<<<TokenType.ROW>>, <<AnyValue>>>> >>)

\* /ALL|DISTINCT/
HasAllOrDistinct == Sub({<<"A", "L", "L">>, <<"D", "I", "S", "T", "I", "N", "C", "T">>})

COLUMN ==
  Rules("COLUMN",
    << <<<<TokenType.KEYWORD, TokenType.KEYWORD, TokenType.EXPRESSION,
           TokenType.KEYWORD, TokenType.EXPRESSION>>,
         <<HasSELECT, HasAllOrDistinct, AnyValue, HasAS, AnyValue>>>>,
       <<<<TokenType.KEYWORD, TokenType.KEYWORD, TokenType.EXPRESSION>>,
         <<HasSELECT, HasAllOrDistinct, AnyValue>>>>,
       <<<<TokenType.KEYWORD, TokenType.EXPRESSION, TokenType.KEYWORD,
           TokenType.EXPRESSION>>,
         <<HasSELECT, AnyValue, HasAS, AnyValue>>>>,
       <<KeywordExpr, <<HasSELECT, AnyValue>>>>,
       <<<<TokenType.OPERATOR, TokenType.OPERATOR>>, <<HasALL, AnyValue>>>>,
       <<<<TokenType.OPERATOR>>, <<HasALL>>>> >>)

\* whether the tokens from the i-th on have the types of the pattern: the
\* same family, and the same type where the pattern names one of a family
matchTokenTypeInformalize(tokens, i, typ) ==
  /\ i - 1 + Len(typ) <= Len(tokens)
  /\ \A j \in 1..Len(typ) :
       /\ Family(tokens[i + j - 1].type) = Family(typ[j])
       /\ Variant(typ[j]) > 0 => tokens[i + j - 1].type = typ[j]

\* whether the values of the tokens from the i-th on pass the patterns
matchValueInformalize(tokens, i, val) ==
  \A j \in 1..Len(val) : Test(val[j], tokens[i + j - 1].value)

\* the condition under which a rule acts at the i-th token
Matches(substage, tokens, i) ==
  /\ matchTokenTypeInformalize(tokens, i, substage.t)
  /\ matchValueInformalize(tokens, i, substage.v)

RECURSIVE Pass(_, _, _, _, _)
\* the pass over the tokens after a rule acted at the i-th: what it returned
\* is collected and the tokens it matched are skipped
Acted(substage, did, tokens, i, a) ==
  Pass(substage, did.s, tokens, i + Len(substage.t), a \o did.ans)

\* one pass of runInformalizeSubstage over the tokens, from the i-th on, with
\* a the tokens collected so far: the state and the collected tokens
Pass(substage, s, tokens, i, a) ==
  IF i > Len(tokens) THEN [s |-> s, a |-> a]
  ELSE IF ~Matches(substage, tokens, i)
  THEN Pass(substage, s, tokens, i + 1, Append(a, tokens[i]))
  ELSE Acted(substage, Act(substage.f, s, tokens, i), tokens, i, a)

RECURSIVE runInformalizeSubstage(_, _, _, _)
\* the end of a pass: another pass when repeating and the tokens got fewer
Repeated(substage, passed, tokens, repeat) ==
  IF Len(passed.a) < Len(tokens) /\ repeat
  THEN runInformalizeSubstage(substage, passed.s, passed.a, repeat)
  ELSE passed

runInformalizeSubstage(substage, state, tokens, repeat) ==
  Repeated(substage, Pass(substage, state, tokens, 1, <<>>), tokens, repeat)

RECURSIVE Substages(_, _, _, _, _)
\* the loop over the substages of a stage after the k-th ran on the tokens a;
\* no rule matches once no token is left
Ran(stage, k, ran, a, rsubstage) ==
  IF k = Len(stage) THEN [s |-> ran.s, a |-> ran.a, tokens |-> a]
  ELSE IF ran.a = <<>> THEN [s |-> ran.s, a |-> <<>>, tokens |-> <<>>]
  ELSE Substages(stage, k + 1, ran.s, ran.a, rsubstage)

\* for (const sub of stage) a = runInformalizeSubstage(sub, state, tokens=a,
\* rsubstage), from the k-th substage on: the state, a, and tokens, which is
\* what the last substage was given
Substages(stage, k, s, a, rsubstage) ==
  Ran(stage, k, runInformalizeSubstage(stage[k], s, a, rsubstage), a, rsubstage)

RECURSIVE StagePasses(_, _, _, _, _, _)
\* the end of a pass over the substages: another pass when repeating and a
\* is shorter than plen
StageRepeated(stage, ran, plen, rsubstage, rstage) ==
  IF Len(ran.a) < plen /\ rstage
  THEN StagePasses(stage, ran.s, ran.a, ran.tokens, rsubstage, rstage)
  ELSE [s |-> ran.s, a |-> ran.a]

\* the do-while loop of runInformalizeStage, with plen = tokens.length taken
\* at the start of each pass
StagePasses(stage, s, a, tokens, rsubstage, rstage) ==
  StageRepeated(stage, Substages(stage, 1, s, a, rsubstage), Len(tokens), rsubstage, rstage)

runInformalizeStage(stage, state, tokens, rsubstage, rstage) ==
  StagePasses(stage, state, tokens, tokens, rsubstage, rstage)

RECURSIVE setAddAll(_, _)
\* a Set keeps the order in which its elements were first added
setAddAll(set, list) ==
  IF list = <<>> THEN set ELSE setAddAll(SetAdd(set, Head(list)), Tail(list))

\* new Set(list)
SetOf(list) == setAddAll(<<>>, list)

\* set.delete(v)
SetDelete(set, v) == SelectSeq(set, LAMBDA x : x # v)

\* ord.replace(/ (ASC|DESC)$/, '')
WithoutDirection(ord) ==
  IF EndsWith(ord, <<" ", "A", "S", "C">>) THEN SubSeq(ord, 1, Len(ord) - 4)
  ELSE IF EndsWith(ord, <<" ", "D", "E", "S", "C">>) THEN SubSeq(ord, 1, Len(ord) - 5)
  ELSE ord

\* the options of convertToInformalSQL
InformalizeOptions(table, columns) == [table |-> table, columns |-> columns]

\* cols after '"*"' is replaced by '*'
Starred(cols) ==
  SetDelete(IF <<"\"", "*", "\"">> \in Range(cols) THEN SetAdd(cols, <<"*">>) ELSE cols, <<"\"", "*", "\"">>)

\* cols with nothing added
WithUsedNothing(cols, state) == cols

\* cols after the sort keys and the columns used in expressions are added,
\* which happens unless '*' is selected
WithUsed(cols, state) ==
  IF Len(cols) = 0 \/ <<"*">> \notin Range(cols)
  THEN setAddAll(setAddAll(cols, [k \in 1..Len(state.orderBy) |->
                                     WithoutDirection(state.orderBy[k])]),
                 IF Len(state.groupBy) # 0 THEN <<>> ELSE state.columnsUsed)
  ELSE cols

RECURSIVE HintColumns(_, _, _)
\* for (const hnt of state.hints) if (hnt in ocols||{}) setAddAll(colt,
\* ocols[hnt]): `hnt in ocols` is evaluated first, so that the loop throws a
\* TypeError when ocols is undefined, and so does setAddAll when ocols has no
\* such hint
HintColumns(colt, hints, ocols) ==
  IF hints = <<>> THEN [thrown |-> FALSE, set |-> colt]
  ELSE IF ocols.type # "js_object" THEN [thrown |-> TRUE, set |-> colt]
  ELSE IF Head(hints) \notin DOMAIN ocols.map THEN [thrown |-> TRUE, set |-> colt]
  ELSE HintColumns(setAddAll(colt, ocols.map[Head(hints)]), Tail(hints), ocols)

\* the end of processColumnsInformalize
AllColumns(hinted, cols) ==
  [thrown |-> hinted.thrown,
   columns |-> IF Len(setAddAll(hinted.set, cols)) = 0 THEN << <<"*">> >>
               ELSE setAddAll(hinted.set, cols)]

\* processColumnsInformalize once cols is complete
Hinted(cols, state, options) ==
  AllColumns(IF <<"*">> \notin Range(cols)
             THEN HintColumns(SetOf(state.groupBy), state.hints, options.columns)
             ELSE [thrown |-> FALSE, set |-> SetOf(state.groupBy)],
             cols)

processColumnsInformalize(state, options) ==
  Hinted(WithUsed(Starred(SetOf(state.columns)), state), state, options)

RECURSIVE JoinText(_, _)
\* list.join(sep)
JoinText(list, sep) ==
  IF list = <<>> THEN <<>>
  ELSE IF Len(list) = 1 THEN list[1]
  ELSE list[1] \o sep \o JoinText(Tail(list), sep)

\* the stages of processTokensInformalize, in order
Stage(rules, rsubstage, rstage) ==
  [rules |-> rules, rsubstage |-> rsubstage, rstage |-> rstage]

Stages ==
  <<Stage(NULLORDER, FALSE, FALSE), Stage(NUMBER_RULES, FALSE, FALSE),
    Stage(LIMIT, FALSE, FALSE), Stage(VALUE, FALSE, FALSE),
    Stage(EXPRESSION, TRUE, TRUE), Stage(ORDERBY, FALSE, TRUE),
    Stage(GROUPBY, TRUE, FALSE), Stage(HAVING, FALSE, FALSE),
    Stage(WHERE, FALSE, FALSE), Stage(FROM, FALSE, FALSE),
    Stage(COLUMN, FALSE, FALSE)>>

RECURSIVE RunStages(_, _, _)
\* the stages that remain after one ended in the state and tokens of ran; no
\* rule matches once no token is left
RunStagesAfter(stages, ran) ==
  IF ran.a = <<>> THEN [s |-> ran.s, a |-> <<>>]
  ELSE RunStages(stages, ran.s, ran.a)

\* the stages, one after the other
RunStages(stages, s, tokens) ==
  IF stages = <<>> THEN [s |-> s, a |-> tokens]
  ELSE RunStagesAfter(Tail(stages),
         runInformalizeStage(Head(stages).rules, s, tokens,
                             Head(stages).rsubstage, Head(stages).rstage))

\* `AND ` at the start of a condition is removed
WithoutAnd(text) ==
  IF StartsWith(text, <<"A", "N", "D", " ">>) THEN SubSeq(text, 5, Len(text)) ELSE text

\* `"${opt.table}"`
DefaultTable(options) ==
  Quoted(IF options.table = UndefinedStr THEN <<"u", "n", "d", "e", "f", "i", "n", "e", "d">> ELSE options.table)

\* the state after the stages: conditions without the leading AND, and the
\* default table when no table was found
Settled(s, options) ==
  [s EXCEPT !.having = WithoutAnd(s.having),
            !.where = WithoutAnd(s.where),
            !.from = IF Len(s.from) = 0 THEN <<DefaultTable(options)>> ELSE s.from]

\* the query string with HAVING put before ORDER BY
QueryTextHavingFirst(s) ==
  <<"S", "E", "L", "E", "C", "T", " ">> \o JoinText(s.columns, <<",", " ">>)
  \o <<" ", "F", "R", "O", "M", " ">> \o JoinText(s.from, <<",", " ">>)
  \o (IF Len(s.where) > 0 THEN <<" ", "W", "H", "E", "R", "E", " ">> \o s.where ELSE <<>>)
  \o (IF Len(s.groupBy) > 0 THEN <<" ", "G", "R", "O", "U", "P", " ", "B", "Y", " ">> \o JoinText(s.groupBy, <<",", " ">>) ELSE <<>>)
  \o (IF Len(s.having) > 0 THEN <<" ", "H", "A", "V", "I", "N", "G", " ">> \o s.having ELSE <<>>)
  \o (IF Len(s.orderBy) > 0 THEN <<" ", "O", "R", "D", "E", "R", " ", "B", "Y", " ">> \o JoinText(s.orderBy, <<",", " ">>) ELSE <<>>)
  \o (IF Positive(s.limit) THEN <<" ", "L", "I", "M", "I", "T", " ">> \o s.limit ELSE <<>>)

\* the query string of the state
QueryText(s) ==
  <<"S", "E", "L", "E", "C", "T", " ">> \o JoinText(s.columns, <<",", " ">>)
  \o <<" ", "F", "R", "O", "M", " ">> \o JoinText(s.from, <<",", " ">>)
  \o (IF Len(s.where) > 0 THEN <<" ", "W", "H", "E", "R", "E", " ">> \o s.where ELSE <<>>)
  \o (IF Len(s.groupBy) > 0 THEN <<" ", "G", "R", "O", "U", "P", " ", "B", "Y", " ">> \o JoinText(s.groupBy, <<",", " ">>) ELSE <<>>)
  \o (IF Len(s.orderBy) > 0 THEN <<" ", "O", "R", "D", "E", "R", " ", "B", "Y", " ">> \o JoinText(s.orderBy, <<",", " ">>) ELSE <<>>)
  \o (IF Len(s.having) > 0 THEN <<" ", "H", "A", "V", "I", "N", "G", " ">> \o s.having ELSE <<>>)
  \o (IF Positive(s.limit) THEN <<" ", "L", "I", "M", "I", "T", " ">> \o s.limit ELSE <<>>)

\* tokens.filter(t => t.type!==T.SEPARATOR)
WithoutSeparators(tokens) == SelectSeq(tokens, LAMBDA t : t.type # TokenType.SEPARATOR)

\* the hints of the tokens, each once, in token order
HintsOf(tokens) ==
  SetOf([k \in 1..Len(SelectSeq(tokens, LAMBDA t : t.hint # NullStr)) |->
           SelectSeq(tokens, LAMBDA t : t.hint # NullStr)[k].hint])

\* the tokens as they are, without a SELECT put first
WithSelectLeftOut(tokens) == tokens

\* if (tokens[0].value!=='SELECT') tokens.unshift(createToken(T.KEYWORD, 'SELECT'))
WithSelect(tokens) ==
  IF tokens[1].value # <<"S", "E", "L", "E", "C", "T">>
  THEN <<Tok(TokenType.KEYWORD, <<"S", "E", "L", "E", "C", "T">>)>> \o tokens
  ELSE tokens

\* what processTokensInformalize comes to: a TypeError, or the state before
\* its columns are replaced, the columns that replace them, and the string
Informalized(thrown, s, columns, sql) ==
  [thrown |-> thrown, s |-> s, columns |-> columns, sql |-> sql]

\* the string, once the projection is known
Projected(s, cols) ==
  IF cols.thrown THEN Informalized(TRUE, s, <<>>, <<>>)
  ELSE Informalized(FALSE, s, cols.columns,
                    QueryText([s EXCEPT !.columns = cols.columns]))

\* lines 362 to 372, on the state the stages left
Assembled(s, options) == Projected(s, processColumnsInformalize(s, options))

\* lines 348 to 372, on the tokens without separators; tokens[0].value throws
\* a TypeError when no token is left
Staged(tokens, options) ==
  IF tokens = <<>> THEN Informalized(TRUE, EmptyState, <<>>, <<>>)
  ELSE Assembled(Settled(RunStages(Stages, [EmptyState EXCEPT !.hints = HintsOf(tokens)],
                                   WithSelect(tokens)).s,
                         options),
                 options)

processTokensInformalize(tokens, options) == Staged(WithoutSeparators(tokens), options)

-----------------------------------------------------------------------------
(* convertToInformalSQL: the entity stage, whose matcher calls are          *)
(* asynchronous.                                                           *)

\* the map EntityType, applied to the first letter of the type in lower case;
\* 0 for any other letter
EntityType(type) ==
  CASE LowerChar(type[1]) = "t" -> TokenType.TABLE
    [] LowerChar(type[1]) = "c" -> TokenType.COLUMN
    [] LowerChar(type[1]) = "r" -> TokenType.ROW
    [] OTHER -> TokenType.NONE

\* an entity the matcher knows: the words that name it and its EntityMatch
Entity(words, type, value, hint) ==
  [words |-> words, type |-> type, value |-> value, length |-> Len(words),
   hint |-> hint]

\* an entity whose match reports a length of its own
Reporting(entity, length) == [entity EXCEPT !.length = length]

\* no match
NoMatch == [type |-> <<>>, value |-> <<>>, length |-> 0, hint |-> NullStr, null |-> TRUE]

\* the matcher of the tests: the first entity it knows whose words start the
\* window, or null
Match(fn, words) ==
  IF \E k \in 1..Len(fn) : StartsWith(words, fn[k].words)
  THEN LET k == CHOOSE k \in 1..Len(fn) :
                  /\ StartsWith(words, fn[k].words)
                  /\ \A j \in 1..(k - 1) : ~StartsWith(words, fn[j].words)
       IN  [type |-> fn[k].type, value |-> fn[k].value, length |-> fn[k].length,
            hint |-> fn[k].hint, null |-> FALSE]
  ELSE NoMatch

\* a block of processEntityTokens: a run of words under entityBlockScan, with
\* i the next word (from 1) and a the tokens found, or one other token
Block(txts, i, a, settled) == [txts |-> txts, i |-> i, a |-> a, settled |-> settled]

\* Promise.resolve([t])
Resolved(t) == Block(<<>>, 1, <<t>>, "resolved")

\* entityBlockScan(txts, fn, ths), as it waits for its first call
Scanning(txts) == Block(txts, 1, <<>>, "pending")

\* blk after the words collected so far are handed to entityBlockScan
Flushed(blk, txts) == IF Len(txts) > 0 THEN Append(blk, Scanning(txts)) ELSE blk

RECURSIVE Blocks(_, _, _)
\* the loop of processEntityTokens over the tokens
Blocks(tokens, txts, blk) ==
  IF tokens = <<>> THEN Flushed(blk, txts)
  ELSE IF Family(Head(tokens).type) = TokenType.TEXT
  THEN Blocks(Tail(tokens), Append(txts, Head(tokens).value), blk)
  ELSE Blocks(Tail(tokens), <<>>, Append(Flushed(blk, txts), Resolved(Head(tokens))))

\* the block after a call of its scan returned ans
Scanned1(b, i, a) ==
  Block(b.txts, i, a, IF i > Len(b.txts) THEN "resolved" ELSE "pending")

\* one turn of the loop that goes on by one word after a match too
entityBlockScanByOne(b, ans) ==
  IF ans.null THEN Scanned1(b, b.i + 1, Append(b.a, Tok(TokenType.TEXT, b.txts[b.i])))
  ELSE Scanned1(b, b.i + 1,
                Append(b.a, createToken(EntityType(ans.type), ans.value,
                                        IF ans.hint = <<>> THEN NullStr ELSE ans.hint)))

\* one turn of a loop that goes on by one word after a match of length 0
entityBlockScanOnward(b, ans) ==
  IF ans.null THEN Scanned1(b, b.i + 1, Append(b.a, Tok(TokenType.TEXT, b.txts[b.i])))
  ELSE Scanned1(b, b.i + (IF ans.length = 0 THEN 1 ELSE ans.length),
                Append(b.a, createToken(EntityType(ans.type), ans.value,
                                        IF ans.hint = <<>> THEN NullStr ELSE ans.hint)))

\* one turn of the loop of entityBlockScan, on the answer of the matcher
entityBlockScan(b, ans) ==
  IF ans.null THEN Scanned1(b, b.i + 1, Append(b.a, Tok(TokenType.TEXT, b.txts[b.i])))
  ELSE Scanned1(b, b.i + ans.length,
                Append(b.a, createToken(EntityType(ans.type), ans.value,
                                        IF ans.hint = <<>> THEN NullStr ELSE ans.hint)))

RECURSIVE FlattenBlocksReversed(_)
\* the tokens of the blocks, last block first
FlattenBlocksReversed(blk) ==
  IF blk = <<>> THEN <<>> ELSE FlattenBlocksReversed(Tail(blk)) \o Head(blk).a

RECURSIVE FlattenBlocks(_)
\* for (const arr of ans) a.push.apply(a, arr)
FlattenBlocks(blk) == IF blk = <<>> THEN <<>> ELSE Head(blk).a \o FlattenBlocks(Tail(blk))

\* /[~!@#$:,\?\.\|\/\\]/
Punctuation == Char({"~", "!", "@", "#", "$", ":", ",", "?", ".", "|", "/", "\\"})

\* line 390: the plain text tokens that hold punctuation are dropped
WithoutPunctuation(tokens) ==
  SelectSeq(tokens, LAMBDA v : v.type # TokenType.TEXT \/ ~Test(Punctuation, v.value))

\* line 391: SELECT is put first unless a keyword is
WithKeyword(tokens) ==
  IF Len(tokens) > 0 /\ Family(tokens[1].type) # TokenType.KEYWORD
  THEN <<Tok(TokenType.KEYWORD, <<"S", "E", "L", "E", "C", "T">>)>> \o tokens
  ELSE tokens

\* lines 390 to 392, on the tokens of the entity stage
Informalize(tokens, options) ==
  processTokensInformalize(WithKeyword(WithoutPunctuation(tokens)), options)

\* a call fn.call(ths, txts.slice(i, I)) of the scan of block r, not yet
\* answered
MatcherCall(r, b) ==
  [run |-> r, words |-> SubSeq(b.txts, b.i, Len(b.txts)), state |-> "pending",
   ans |-> NoMatch, early |-> FALSE]

RECURSIVE Issued(_, _)
\* the first calls of the scans, in the order processEntityTokens starts them
Issued(blk, b) ==
  IF b > Len(blk) THEN <<>>
  ELSE (IF blk[b].settled = "pending" THEN <<MatcherCall(b, blk[b])>> ELSE <<>>)
       \o Issued(blk, b + 1)

\* the calls after call c resolved to ans and its scan, now at b, went on: the
\* scan calls the matcher again unless it is at the end of its words; early
\* tells that the call resolved while a call of a run before its own was pending
Answered(cs, c, ans, b) ==
  [cs EXCEPT ![c].state = "resolved", ![c].ans = ans,
             ![c].early = \E k \in 1..Len(cs) :
                            cs[k].state = "pending" /\ cs[k].run < cs[c].run]
  \o (IF b.settled = "pending" THEN <<MatcherCall(cs[c].run, b)>> ELSE <<>>)

\* the most calls a scan is followed for beyond one per word
MaxStuck == 3

AllSettled(blk) == \A b \in 1..Len(blk) : blk[b].settled = "resolved"

\* the end of convertToInformalSQL: the string is returned, or the TypeError
\* of processTokensInformalize fails the call
Concluded(r) ==
  /\ ipc' = IF r.thrown THEN "failed" ELSE "done"
  /\ istate' = r.s
  /\ icolumns' = r.columns
  /\ isql' = r.sql

\* convertToInformalSQL up to await Promise.all(blk): every run of words
\* starts its scan with a call of the matcher
InformalStart ==
  /\ ipc = "idle"
  /\ iblk' = Blocks(itokens, <<>>, <<>>)
  /\ icalls' = Issued(iblk', 1)
  /\ IF AllSettled(iblk') THEN Concluded(Informalize(FlattenBlocks(iblk'), iopt))
     ELSE ipc' = "entity" /\ UNCHANGED <<istate, icolumns, isql>>
  /\ UNCHANGED <<fvars, lvars, itokens, iopt, ifn>>

\* a call of the matcher resolves: its scan takes the answer and calls the
\* matcher on the words that remain, or resolves its block; the last block to
\* resolve lets the conversion go on, unless it has failed
MatcherResolve ==
  \E c \in 1..Len(icalls) :
    /\ ipc \in {"entity", "failed"}
    /\ icalls[c].state = "pending"
    /\ Len(iblk[icalls[c].run].a) < Len(iblk[icalls[c].run].txts) + MaxStuck
    /\ iblk' = [iblk EXCEPT ![icalls[c].run] =
                  entityBlockScan(iblk[icalls[c].run], Match(ifn, icalls[c].words))]
    /\ icalls' = Answered(icalls, c, Match(ifn, icalls[c].words), iblk'[icalls[c].run])
    /\ IF ipc = "entity" /\ AllSettled(iblk')
       THEN Concluded(Informalize(FlattenBlocks(iblk'), iopt))
       ELSE UNCHANGED <<ipc, istate, icolumns, isql>>
    /\ UNCHANGED <<fvars, lvars, itokens, iopt, ifn>>

\* a call of the matcher rejects: its scan rejects, and with it Promise.all
\* and the conversion; the other scans go on
MatcherReject ==
  \E c \in 1..Len(icalls) :
    /\ ipc \in {"entity", "failed"}
    /\ icalls[c].state = "pending"
    /\ iblk' = [iblk EXCEPT ![icalls[c].run].settled = "rejected"]
    /\ icalls' = [icalls EXCEPT ![c].state = "rejected"]
    /\ ipc' = "failed"
    /\ UNCHANGED <<fvars, lvars, itokens, iopt, ifn, istate, icolumns, isql>>

-----------------------------------------------------------------------------
(* The inputs of convertToInformalSQL: the tokens processReservedTokens      *)
(* hands to the entity stage, the matcher and the options.                  *)

Word(value) == Tok(TokenType.TEXT, value)

Keyword(value) == Tok(TokenType.KEYWORD, value)

Binary(value) == Tok(TokenType.BINARY, value)

Cardinal(value) == Tok(TokenType.CARDINAL, value)

\* "... ascorbic acid < 29"
AcidCondition == <<Word(<<"a", "s", "c", "o", "r", "b", "i", "c">>), Word(<<"a", "c", "i", "d">>), Binary(<<"<">>), Cardinal(<<"2", "9">>)>>

\* "... iron > 5"
IronCondition == <<Word(<<"i", "r", "o", "n">>), Binary(<<">">>), Cardinal(<<"5">>)>>

Queries ==
  { <<Keyword(<<"S", "E", "L", "E", "C", "T">>), Word(<<"f", "o", "o", "d">>), Keyword(<<"W", "H", "E", "R", "E">>)>> \o AcidCondition,
    <<Word(<<"f", "o", "o", "d">>), Keyword(<<"W", "H", "E", "R", "E">>)>> \o AcidCondition,
    <<Word(<<"f", "o", "o", "d">>), Keyword(<<"W", "H", "E", "R", "E">>)>> \o IronCondition \o <<Binary(<<"A", "N", "D">>)>>
      \o AcidCondition \o <<Binary(<<"A", "N", "D">>)>> \o IronCondition,
    <<Word(<<"f", "o", "o", "d">>)>>,
    <<Word(<<"f", "o", "o", "d">>), Word(<<",">>), Keyword(<<"W", "H", "E", "R", "E">>), Word(<<"a", "c", "i", "d">>), Binary(<<"=">>),
      Word(<<"t", "a", "s", "t", "y">>)>>,
    <<Keyword(<<"W", "H", "E", "R", "E">>)>> \o IronCondition,
    <<Word(<<"f", "o", "o", "d">>), Keyword(<<"O", "R", "D", "E", "R", " ", "B", "Y">>), Word(<<"i", "r", "o", "n">>), Keyword(<<"D", "E", "S", "C">>)>>,
    <<Word(<<"f", "o", "o", "d">>), Keyword(<<"G", "R", "O", "U", "P", " ", "B", "Y">>), Word(<<"i", "r", "o", "n">>)>>,
    <<Keyword(<<"S", "E", "L", "E", "C", "T">>), Word(<<"i", "r", "o", "n">>), Word(<<"f", "o", "o", "d">>)>>,
    <<Tok(TokenType.OPERATOR, <<"A", "L", "L">>), Word(<<"f", "o", "o", "d">>), Keyword(<<"W", "H", "E", "R", "E">>)>> \o IronCondition,
    <<Word(<<"f", "o", "o", "d">>), Keyword(<<"W", "H", "E", "R", "E">>)>> \o IronCondition
      \o <<Keyword(<<"G", "R", "O", "U", "P", " ", "B", "Y">>), Word(<<"a", "c", "i", "d">>), Keyword(<<"O", "R", "D", "E", "R", " ", "B", "Y">>), Word(<<"i", "r", "o", "n">>), Keyword(<<"D", "E", "S", "C">>), Keyword(<<"H", "A", "V", "I", "N", "G">>)>>
      \o AcidCondition \o <<Keyword(<<"L", "I", "M", "I", "T">>), Cardinal(<<"3">>)>>,
    <<Keyword(<<"S", "E", "L", "E", "C", "T">>), Word(<<"i", "r", "o", "n">>), Word(<<"f", "o", "o", "d">>), Keyword(<<"W", "H", "E", "R", "E">>), Word(<<"a", "c", "i", "d">>), Binary(<<"<">>), Cardinal(<<"2", "9">>)>>,
    <<Word(<<"t", "a", "s", "t", "y">>), Word(<<"a", "s", "c", "o", "r", "b", "i", "c">>), Word(<<"a", "c", "i", "d">>), Word(<<"f", "o", "o", "d">>)>>,
    <<Word(<<"f", "o", "o", "d">>), Keyword(<<"O", "R", "D", "E", "R", " ", "B", "Y">>), Word(<<"i", "r", "o", "n">>), Keyword(<<"A", "S", "C">>), Keyword(<<"D", "E", "S", "C", " ", "L", "I", "M", "I", "T">>), Cardinal(<<"3">>)>>,
    <<Word(<<"f", "o", "o", "d">>), Cardinal(<<"2">>), Keyword(<<"D", "E", "S", "C", " ", "L", "I", "M", "I", "T">>), Keyword(<<"O", "R", "D", "E", "R", " ", "B", "Y">>), Word(<<"i", "r", "o", "n">>), Keyword(<<"D", "E", "S", "C">>)>>,
    <<Word(<<"f", "o", "o", "d">>), Keyword(<<"D", "E", "S", "C", " ", "L", "I", "M", "I", "T">>), Keyword(<<"L", "I", "M", "I", "T">>), Cardinal(<<"2">>), Cardinal(<<"3">>), Keyword(<<"O", "R", "D", "E", "R", " ", "B", "Y">>), Word(<<"i", "r", "o", "n">>), Keyword(<<"D", "E", "S", "C">>)>>,
    <<Word(<<",">>), Word(<<"?">>)>>,
    <<>> }

\* the matcher of the tests, with one more column; every column it finds
\* carries the hint
Matcher(hint) ==
  <<Entity(<<<<"f", "o", "o", "d">>>>, <<"t", "a", "b", "l", "e">>, <<"F", "O", "O", "D">>, NullStr),
    Entity(<<<<"a", "s", "c", "o", "r", "b", "i", "c">>, <<"a", "c", "i", "d">>>>, <<"c", "o", "l", "u", "m", "n">>, <<"A", "S", "C", "O", "R", "B", "I", "C", " ", "A", "C", "I", "D">>, hint),
    Entity(<<<<"a", "c", "i", "d">>>>, <<"c", "o", "l", "u", "m", "n">>, <<"A", "C", "I", "D">>, hint),
    Entity(<<<<"i", "r", "o", "n">>>>, <<"C", "o", "l", "u", "m", "n">>, <<"I", "R", "O", "N">>, hint)>>

Matchers == {Matcher(NullStr), Matcher(<<"h">>)}

InformalOptions ==
  { InformalizeOptions(UndefinedStr, JsUndefined),
    InformalizeOptions(<<"t">>, JsObject(<<"h">> :> <<<<"I", "D">>, <<"\"", "I", "R", "O", "N", "\"">>>>)),
    InformalizeOptions(<<"t">>, JsObject(<<"g">> :> <<<<"I", "D">>>>)) }

\* a matcher whose match of zinc reports the length 0
MatcherOfNone ==
  <<Entity(<<<<"f", "o", "o", "d">>>>, <<"t", "a", "b", "l", "e">>, <<"F", "O", "O", "D">>, NullStr),
    Reporting(Entity(<<<<"z", "i", "n", "c">>>>, <<"c", "o", "l", "u", "m", "n">>, <<"Z", "I", "N", "C">>, NullStr), 0)>>

\* texts with the word zinc
QueriesOfNone ==
  { <<Word(<<"z", "i", "n", "c">>)>>,
    <<Word(<<"f", "o", "o", "d">>), Word(<<"z", "i", "n", "c">>), Word(<<"i", "r", "o", "n">>)>>,
    <<Word(<<"s", "h", "o", "w">>), Word(<<"f", "o", "o", "d">>), Keyword(<<"W", "H", "E", "R", "E">>), Word(<<"z", "i", "n", "c">>)>> }

InformalInputs ==
  { [tokens |-> q, fn |-> m, opt |-> o] :
      q \in Queries, m \in Matchers, o \in InformalOptions }
  \cup { [tokens |-> q, fn |-> MatcherOfNone, opt |-> InformalizeOptions(UndefinedStr, JsUndefined)] :
           q \in QueriesOfNone }

-----------------------------------------------------------------------------
(* parseTokens (src/inc/token.ts): the text is read one character at a     *)
(* time.                                                                   *)

\* quo = null
NoQuote == ""

\* the character U+0060, which a string of this notation cannot hold
Backtick == "%backtick%"

\* the class of the three quote characters of line 71
QuoteChars == {"'", "\"", Backtick}

\* the locals of parseTokens before character i of the text is read
LexFrame(at, text, i, quo, x, a) ==
  [pc |-> at, txt |-> text, i |-> i, quo |-> quo, x |-> x, a |-> a]

\* lines 70 and 74: the characters gathered become a token, a quoted one if a
\* quote is open
PushWord(f) ==
  IF f.x # <<>>
  THEN [f EXCEPT !.a = Append(@, Tok(IF f.quo # NoQuote THEN TokenType.QUOTED
                                     ELSE TokenType.TEXT, f.x)),
                 !.x = <<>>]
  ELSE f

\* lines 71 and 72: a quote opens or closes, any other character that is not
\* white space is a token of its own
Delimit(f, c) ==
  IF c \in QuoteChars THEN [f EXCEPT !.quo = IF f.quo = NoQuote THEN c ELSE NoQuote]
  ELSE IF c \notin SpaceChars THEN [f EXCEPT !.a = Append(@, Tok(TokenType.TEXT, <<c>>))]
  ELSE f

\* the body of the loop if an open quote did not hold the characters that
\* are not of a word
parseTokensCharUnquoted(f, c) ==
  IF c \in WordChars THEN [f EXCEPT !.x = Append(@, c)]
  ELSE Delimit(PushWord(f), c)

\* lines 69 to 72: the body of the loop, for the character c
parseTokensChar(f, c) ==
  IF (f.quo # NoQuote /\ f.quo # c) \/ c \in WordChars
  THEN [f EXCEPT !.x = Append(@, c)]
  ELSE Delimit(PushWord(f), c)

RECURSIVE parseTokensFrom(_)
\* lines 66 to 75: the loop over the characters of the frame, and the end
parseTokensFrom(f) ==
  IF f.i > Len(f.txt) THEN PushWord(f).a
  ELSE parseTokensFrom([parseTokensChar(f, f.txt[f.i]) EXCEPT !.i = f.i + 1])

\* parseTokens(txt)
parseTokens(text) == parseTokensFrom(LexFrame("scan", text, 1, NoQuote, <<>>, <<>>))

-----------------------------------------------------------------------------
(* processNumberTokens (src/unnamed/part_002).  A number is a fraction n/d *)
(* in lowest terms; d = 0 stands for NaN (n = 0) and Infinity (n = 1).     *)

RECURSIVE GCD(_, _)
GCD(a, b) == IF b = 0 THEN a ELSE GCD(b, a % b)

\* the number n/d
Ratio(n, d) ==
  IF d = 0 THEN [n |-> IF n = 0 THEN 0 ELSE 1, d |-> 0]
  ELSE [n |-> n \div GCD(n, d), d |-> d \div GCD(n, d)]

Whole(n) == [n |-> n, d |-> 1]

NaN == [n |-> 0, d |-> 0]

Infinity == [n |-> 1, d |-> 0]

\* a + b
NumPlus(a, b) == Ratio(a.n * b.d + b.n * a.d, a.d * b.d)

\* a * b
NumTimes(a, b) == Ratio(a.n * b.n, a.d * b.d)

\* a / b
NumOver(a, b) == Ratio(a.n * b.d, a.d * b.n)

\* a >= k, false of NaN
NumAtLeast(a, k) == a = Infinity \/ (a.d > 0 /\ a.n >= k * a.d)

RECURSIVE Power10(_)
\* 10 ** k
Power10(k) == IF k = 0 THEN 1 ELSE 10 * Power10(k - 1)

\* lines 8 to 120: the words of the four tables, up to the thousand
DECIMAL == {<<"d", "o", "t">>, <<"p", "o", "i", "n", "t">>, <<"d", "e", "c", "i", "m", "a", "l">>}

SPECIAL ==
  <<"i", "n", "f", "i", "n", "i", "t", "y">> :> Infinity @@ <<"i", "n", "f", "i", "n", "i", "t", "e">> :> Infinity @@ <<"i", "n", "f">> :> Infinity
  @@ <<"n", "a", "n">> :> NaN

CARDINAL ==
  <<"o", "h">> :> 0 @@ <<"n", "i", "l">> :> 0 @@ <<"z", "e", "r", "o">> :> 0 @@ <<"n", "o", "u", "g", "h", "t">> :> 0 @@ <<"n", "a", "u", "g", "h", "t">> :> 0
  @@ <<"o", "n", "e">> :> 1 @@ <<"t", "w", "o">> :> 2 @@ <<"t", "h", "r", "e", "e">> :> 3 @@ <<"f", "o", "u", "r">> :> 4 @@ <<"f", "i", "v", "e">> :> 5
  @@ <<"s", "i", "x">> :> 6 @@ <<"s", "e", "v", "e", "n">> :> 7 @@ <<"e", "i", "g", "h", "t">> :> 8 @@ <<"n", "i", "n", "e">> :> 9 @@ <<"t", "e", "n">> :> 10
  @@ <<"e", "l", "e", "v", "e", "n">> :> 11 @@ <<"t", "w", "e", "l", "v", "e">> :> 12 @@ <<"t", "h", "i", "r", "t", "e", "e", "n">> :> 13 @@ <<"f", "o", "u", "r", "t", "e", "e", "n">> :> 14
  @@ <<"f", "i", "f", "t", "e", "e", "n">> :> 15 @@ <<"s", "i", "x", "t", "e", "e", "n">> :> 16 @@ <<"s", "e", "v", "e", "n", "t", "e", "e", "n">> :> 17
  @@ <<"e", "i", "g", "h", "t", "e", "e", "n">> :> 18 @@ <<"n", "i", "n", "e", "t", "e", "e", "n">> :> 19 @@ <<"t", "w", "e", "n", "t", "y">> :> 20 @@ <<"t", "h", "i", "r", "t", "y">> :> 30
  @@ <<"f", "o", "r", "t", "y">> :> 40 @@ <<"f", "i", "f", "t", "y">> :> 50 @@ <<"s", "i", "x", "t", "y">> :> 60 @@ <<"s", "e", "v", "e", "n", "t", "y">> :> 70
  @@ <<"e", "i", "g", "h", "t", "y">> :> 80 @@ <<"n", "i", "n", "e", "t", "y">> :> 90 @@ <<"h", "u", "n", "d", "r", "e", "d">> :> 100
  @@ <<"t", "h", "o", "u", "s", "a", "n", "d">> :> 1000

ORDINAL ==
  <<"f", "i", "r", "s", "t">> :> 1 @@ <<"h", "a", "l", "f">> :> 2 @@ <<"s", "e", "c", "o", "n", "d">> :> 2 @@ <<"t", "h", "i", "r", "d">> :> 3
  @@ <<"q", "u", "a", "r", "t", "e", "r">> :> 4 @@ <<"f", "o", "u", "r", "t", "h">> :> 4 @@ <<"f", "i", "f", "t", "h">> :> 5 @@ <<"s", "i", "x", "t", "h">> :> 6
  @@ <<"s", "e", "v", "e", "n", "t", "h">> :> 7 @@ <<"e", "i", "g", "h", "t", "h">> :> 8 @@ <<"n", "i", "n", "t", "h">> :> 9 @@ <<"t", "e", "n", "t", "h">> :> 10
  @@ <<"t", "w", "e", "n", "t", "i", "e", "t", "h">> :> 20 @@ <<"t", "h", "i", "r", "t", "i", "e", "t", "h">> :> 30 @@ <<"h", "u", "n", "d", "r", "e", "d", "t", "h">> :> 100
  @@ <<"t", "h", "o", "u", "s", "a", "n", "d", "t", "h">> :> 1000

RECURSIVE log10(_)
\* x<1? 0 : Math.floor(Math.log10(x)), x a whole number
log10(x) == IF x < 10 THEN 0 ELSE 1 + log10(x \div 10)

\* the three numbers a word adds to the state array: the value, its number
\* of digits, the zeros it leaves room for
Group(v, len, spc) == [num |-> v, len |-> len, spc |-> spc]

\* numberStateFuse(s, i), k being the group that ends at i: group k is
\* fused into group k-1 and stays in the array
numberStateFuse(s, k) ==
  IF s[k].len <= s[k - 1].spc
  THEN [s EXCEPT ![k - 1].num = NumPlus(@, s[k].num), ![k - 1].spc = s[k].len]
  ELSE [s EXCEPT ![k - 1].num = NumPlus(NumTimes(@, Whole(Power10(s[k].len))), s[k].num),
                 ![k - 1].len = @ + s[k].len,
                 ![k - 1].spc = s[k].len]

RECURSIVE FusedDown(_, _)
\* line 161: for (i=s.length; i>3; i-=3) numberStateFuse(s, i)
FusedDown(s, k) == IF k > 1 THEN FusedDown(numberStateFuse(s, k), k - 1) ELSE s

\* the value numberStateValue reads from the array it has fused
ValueRead(s, pre) ==
  IF pre = NaN THEN s[1].num
  ELSE NumPlus(pre, NumOver(s[1].num, Whole(Power10(s[1].len))))

\* numberStateValue(s, pre): the value, and the array as the call leaves it
numberStateValue(s, pre) ==
  IF Len(s) = 0 THEN [s |-> s, value |-> IF pre = NaN THEN Whole(0) ELSE pre]
  ELSE [s |-> FusedDown(s, Len(s)), value |-> ValueRead(FusedDown(s, Len(s)), pre)]

RECURSIVE FusedFor(_, _, _)
\* line 176: for (; i>3 && s[i-2] + spc > s[i-4]; i-=3) numberStateFuse(s, i);
\* and line 180, s.length = i
FusedFor(s, k, spc) ==
  IF k > 1 /\ s[k].len + spc > s[k - 1].spc
  THEN FusedFor(numberStateFuse(s, k), k - 1, spc)
  ELSE SubSeq(s, 1, k)

\* lines 177 to 179, on the last group
Scaled(s, n, spc) ==
  [s EXCEPT ![Len(s)] = Group(NumTimes(@.num, Whole(n)), @.len + spc, @.spc + spc)]

\* the spc of numberStateAdd if the tens left no room for a unit
RoomOfTeens(n) == IF n < 100 THEN 0 ELSE log10(n)

\* the spc of numberStateAdd
Room(n) == IF n < 20 THEN 0 ELSE log10(n)

\* numberStateAdd(s, num)
numberStateAdd(s, n) ==
  IF Len(s) = 0 \/ n < 100 THEN Append(s, Group(Whole(n), log10(n) + 1, Room(n)))
  ELSE Scaled(FusedFor(s, Len(s), Room(n)), n, Room(n))

\* lines 191 to 193, val being what numberStateValue(s) returned
OrdinalAdded(val, n) ==
  IF NumAtLeast(val.value, 20) THEN numberStateAdd(val.s, n)
  ELSE <<Group(NumOver(val.value, Whole(n)), 1, 0)>>

\* numberStateAddOrdinal(s, num)
numberStateAddOrdinal(s, n) == OrdinalAdded(numberStateValue(s, NaN), n)

\* brk = null
NoBreak == createToken(0 - 1, NullStr, NullStr)

\* what the tokens given to processNumberTokens spell: the number n between
\* the tokens before and after, or no number (n = -1)
Given(n, before, after) == [n |-> n, before |-> before, after |-> after]

\* the locals of processNumberTokens before token i is read
NumberFrame(at, tokens, given) ==
  [pc |-> at, tokens |-> tokens, i |-> 1, pre |-> NaN, val |-> FALSE,
   brk |-> NoBreak, s |-> <<>>, a |-> <<>>, given |-> given]

\* line 208: the word of a text token, null for another token
Spelled(t) ==
  IF Family(t.type) = TokenType.TEXT
  THEN LowerStr(SelectSeq(t.value, LAMBDA c : c \notin SpaceChars \cup {","}))
  ELSE NullStr

\* !txt
NoText(w) == w = NullStr \/ w = <<>>

\* lines 210, 211 and 223: the number gathered becomes a cardinal token
CardinalPushed(f) ==
  [f EXCEPT !.a = Append(@, Tok(TokenType.CARDINAL, numberStateValue(f.s, f.pre).value)),
            !.s = <<>>, !.pre = NaN, !.val = FALSE]

\* lines 213, 214 and 224: the token held back is pushed
BreakPushed(f) ==
  [f EXCEPT !.a = IF f.brk.type > 0 THEN Append(@, f.brk) ELSE @,
            !.brk = NoBreak]

\* isNaN(txt) is false: the word is a row of digits
IsNumeric(w) == w # <<>> /\ \A k \in 1..Len(w) : w[k] \in DigitChars

\* lines 216 to 221: the word w of the token t
Worded(f, t, w) ==
  CASE w \in DOMAIN SPECIAL -> [f EXCEPT !.brk = Tok(TokenType.CARDINAL, SPECIAL[w])]
    [] w \in DOMAIN ORDINAL ->
         [f EXCEPT !.s = numberStateAddOrdinal(@, ORDINAL[w]), !.val = TRUE,
                   !.brk = Tok(TokenType.NONE, NullStr)]
    [] w \in DECIMAL -> [f EXCEPT !.pre = numberStateValue(f.s, NaN).value, !.s = <<>>]
    [] w \in DOMAIN CARDINAL -> [f EXCEPT !.s = numberStateAdd(@, CARDINAL[w]), !.val = TRUE]
    [] OTHER -> [f EXCEPT !.brk = IF IsNumeric(w) THEN Tok(TokenType.CARDINAL, Whole(DecimalValue(w)))
                                  ELSE t]

\* line 215 on: a token without a word is passed on
Read(f, t, w) == IF NoText(w) THEN [f EXCEPT !.a = Append(@, t)] ELSE Worded(f, t, w)

\* lines 209 to 214
Broken(f, w) ==
  BreakPushed(IF f.val /\ (NoText(w) \/ f.brk.type # 0 - 1) THEN CardinalPushed(f) ELSE f)

\* lines 208 to 221: the body of the loop, for the token t
processNumberToken(f, t) == Read(Broken(f, Spelled(t)), t, Spelled(t))

\* lines 223 and 224
processNumberTokensEnd(f) == BreakPushed(IF f.val THEN CardinalPushed(f) ELSE f)

\* processNumberTokens is not called
NumberIdle == NumberFrame("off", <<>>, Given(0 - 1, <<>>, <<>>))

\* parseTokens is not called
LexIdle == LexFrame("off", <<>>, 1, NoQuote, <<>>, <<>>)

\* one turn of the loop of parseTokens
ParseChar ==
  /\ lex.pc = "scan"
  /\ lex.i <= Len(lex.txt)
  /\ lex' = [parseTokensChar(lex, lex.txt[lex.i]) EXCEPT !.i = lex.i + 1]
  /\ UNCHANGED <<fvars, ivars, num, eng>>

\* lines 74 and 75: the end of the text; line 386 of informalize.ts hands
\* the tokens to processNumberTokens
ParseEnd ==
  /\ lex.pc = "scan"
  /\ lex.i > Len(lex.txt)
  /\ lex' = [PushWord(lex) EXCEPT !.pc = "done"]
  /\ num' = NumberFrame("scan", lex'.a, Given(0 - 1, <<>>, <<>>))
  /\ UNCHANGED <<fvars, ivars, eng>>

\* one turn of the loop of processNumberTokens
NumberToken ==
  /\ num.pc = "scan"
  /\ num.i <= Len(num.tokens)
  /\ num' = [processNumberToken(num, num.tokens[num.i]) EXCEPT !.i = num.i + 1]
  /\ UNCHANGED <<fvars, ivars, lex, eng>>

\* lines 223 to 225: the end of the tokens
NumberEnd ==
  /\ num.pc = "scan"
  /\ num.i > Len(num.tokens)
  /\ num' = [processNumberTokensEnd(num) EXCEPT !.pc = "done"]
  /\ UNCHANGED <<fvars, ivars, lex, eng>>

\* the texts given to parseTokens
Texts ==
  { <<"s", "h", "o", "w", " ", "\"", "a", "s", "c", "o", "r", "b", "i", "c", " ", "a", "c", "i", "d">>,
    <<"f", "o", "o", "d", " ", "'", "i", "r", "o", "n", ",", " ", "z", "i", "n", "c">>,
    <<"\"", "t", "r", "a", "n", "s", " ", "f", "a", "t", "\"", " ", "o", "f", " ", "f", "o", "o", "d">>,
    <<"i", "t", "'", "s", " ", "i", "r", "o", "n">>,
    <<"a", " ", "\"", "b", "'", "c", "\"", " ", "d">>,
    <<Backtick, "x", Backtick, " ", "y", "?">>,
    <<"f", "o", "o", "d", " ", "\"">>,
    <<"a", " ", "\"", "b", "\"", " ", "'", "c", " ", "d">>,
    <<"\"", "\"", " ", "a">>,
    <<"s", "h", "o", "w", " ", "f", "o", "o", "d", " ", "w", "i", "t", "h", " ", "a", "s", "c", "o", "r", "b", "i", "c", " ", "a", "c", "i", "d", " ", "l", "e", "s", "s", " ", "t", "h", "a", "n", " ", "t", "w", "e", "n", "t", "y", " ", "n", "i", "n", "e", " ", "m", "g">>,
    <<"t", "o", "p", " ", "5", " ", "o", "f", " ", "'", "T", "w", "e", "n", "t", "y", "'", " ", "i", "n", "f">>,
    <<"t", "w", "o", " ", "p", "o", "i", "n", "t", " ", "f", "i", "v", "e", ",", " ", "o", "n", "e", " ", "t", "h", "i", "r", "d">>,
    <<" ", "\t", " ">>,
    <<",", " ", ".">>,
    <<>> }

\* the words of the numbers below twenty, and of the tens
Ones ==
  <<<<"o", "n", "e">>, <<"t", "w", "o">>, <<"t", "h", "r", "e", "e">>, <<"f", "o", "u", "r">>, <<"f", "i", "v", "e">>, <<"s", "i", "x">>, <<"s", "e", "v", "e", "n">>,
    <<"e", "i", "g", "h", "t">>, <<"n", "i", "n", "e">>, <<"t", "e", "n">>, <<"e", "l", "e", "v", "e", "n">>, <<"t", "w", "e", "l", "v", "e">>, <<"t", "h", "i", "r", "t", "e", "e", "n">>,
    <<"f", "o", "u", "r", "t", "e", "e", "n">>, <<"f", "i", "f", "t", "e", "e", "n">>, <<"s", "i", "x", "t", "e", "e", "n">>, <<"s", "e", "v", "e", "n", "t", "e", "e", "n">>, <<"e", "i", "g", "h", "t", "e", "e", "n">>,
    <<"n", "i", "n", "e", "t", "e", "e", "n">>>>

Tens ==
  <<<<"t", "w", "e", "n", "t", "y">>, <<"t", "h", "i", "r", "t", "y">>, <<"f", "o", "r", "t", "y">>, <<"f", "i", "f", "t", "y">>, <<"s", "i", "x", "t", "y">>, <<"s", "e", "v", "e", "n", "t", "y">>,
    <<"e", "i", "g", "h", "t", "y">>, <<"n", "i", "n", "e", "t", "y">>>>

\* the English phrase of n < 100: units, teens, tens with units
Below100(n) ==
  IF n = 0 THEN <<>>
  ELSE IF n < 20 THEN <<Ones[n]>>
  ELSE <<Tens[(n \div 10) - 1]>> \o (IF n % 10 = 0 THEN <<>> ELSE <<Ones[n % 10]>>)

\* the English phrase of n < 1000: X hundred [Y]
Below1000(n) ==
  (IF n >= 100 THEN <<Ones[n \div 100], <<"h", "u", "n", "d", "r", "e", "d">>>> ELSE <<>>) \o Below100(n % 100)

\* the English phrase of n < 1000000: X thousand [Y]
CardinalPhrase(n) ==
  (IF n >= 1000 THEN Below1000(n \div 1000) \o <<<<"t", "h", "o", "u", "s", "a", "n", "d">>>> ELSE <<>>)
  \o Below1000(n % 1000)

\* every number up to MaxPhrase is spelled
MaxPhrase == 300

\* the thousands and the rests that are put together
Parts == {0, 1, 9, 10, 11, 19, 20, 21, 99, 100, 101, 110, 111, 120, 121, 500, 999}

Spellable == (1..MaxPhrase) \cup {1000 * k + r : k \in Parts \ {0}, r \in Parts}

\* the text tokens of some words
WordTokens(ws) == [k \in 1..Len(ws) |-> Tok(TokenType.TEXT, ws[k])]

\* the tokens around a phrase
Around ==
  { Given(0, <<>>, <<>>),
    Given(0, WordTokens(<<<<"f", "o", "o", "d">>, <<"<">>>>), WordTokens(<<<<"m", "g">>, <<"F", "o", "o", "d">>>>)) }

\* phrases with ordinals and decimal points
OtherPhrases ==
  { <<<<"o", "n", "e">>, <<"t", "h", "i", "r", "d">>>>, <<<<"t", "w", "e", "n", "t", "y">>, <<"t", "h", "i", "r", "d">>>>, <<<<"t", "h", "r", "e", "e">>, <<"q", "u", "a", "r", "t", "e", "r">>>>,
    <<<<"t", "h", "i", "r", "d">>>>, <<<<"n", "i", "n", "e", "t", "e", "e", "n">>, <<"h", "a", "l", "f">>>>, <<<<"t", "w", "o">>, <<"h", "u", "n", "d", "r", "e", "d", "t", "h">>>>,
    <<<<"t", "w", "e", "n", "t", "y">>, <<"h", "u", "n", "d", "r", "e", "d", "t", "h">>>>, <<<<"o", "n", "e">>, <<"h", "u", "n", "d", "r", "e", "d">>, <<"t", "w", "e", "n", "t", "y">>, <<"t", "h", "i", "r", "d">>>>,
    <<<<"t", "w", "o">>, <<"h", "u", "n", "d", "r", "e", "d">>, <<"t", "h", "i", "r", "d">>>>, <<<<"t", "w", "e", "n", "t", "y">>, <<"o", "n", "e">>, <<"h", "a", "l", "f">>>>,
    <<<<"t", "w", "o">>, <<"p", "o", "i", "n", "t">>, <<"f", "i", "v", "e">>>>, <<<<"t", "w", "o">>, <<"p", "o", "i", "n", "t">>, <<"o", "n", "e">>, <<"h", "a", "l", "f">>>>,
    <<<<"o", "n", "e">>, <<"t", "h", "i", "r", "d">>, <<"f", "o", "o", "d">>, <<"t", "w", "e", "n", "t", "y">>, <<"f", "i", "r", "s", "t">>, <<"i", "r", "o", "n">>>>,
    <<<<"f", "o", "o", "d">>, <<"s", "i", "x", "t", "y">>, <<"f", "i", "f", "t", "h">>, <<"m", "g">>>> }

\* the token lists given to processNumberTokens
NumberInputs ==
  { [tokens |-> g.before \o WordTokens(CardinalPhrase(n)) \o g.after,
     given |-> Given(n, g.before, g.after)] : n \in Spellable, g \in Around }
  \cup { [tokens |-> WordTokens(p), given |-> Given(0 - 1, <<>>, <<>>)] : p \in OtherPhrases }

-----------------------------------------------------------------------------
(* runInformalizeStage and runInformalizeSubstage, one step at a time, for *)
(* any rules: the function f of a rule is the set of the token lists it    *)
(* may return (none for null, one for a token, several for an array).      *)

\* the most passes over the substages of a stage
MaxPasses == 10

\* the locals of runInformalizeSubstage: tokens, a, and the index i
SubstageFrame(tokens) == [tokens |-> tokens, a |-> <<>>, i |-> 1]

\* the locals of runInformalizeStage while it runs substage k: tokens is what
\* that substage was given, sub are the locals of the substage; kept beside
\* them are the places where the rule acted in this pass of the substage
\* (hits), the lengths of the lists given to the passes of this call of the
\* substage (lens), the length of the list this pass over the substages
\* started with (got), and the passes over the substages that have ended (log: what each
\* started with, its plen, what its last substage was given, what it returned)
StageFrame(at, stage, rsubstage, rstage, tokens, plen, k, log) ==
  [pc |-> at, stage |-> stage, rsubstage |-> rsubstage, rstage |-> rstage,
   tokens |-> tokens, plen |-> plen, k |-> k, a |-> tokens,
   sub |-> SubstageFrame(tokens), hits |-> <<>>, lens |-> <<Len(tokens)>>,
   got |-> Len(tokens), log |-> log]

\* a scan that goes on at the next token whatever the rule matched
ResumeNext(i, substage) == i + 1

\* line 268 and the i++ of the loop: where the scan goes on after the
\* rule acted at i
Resume(i, substage) == i + Len(substage.t)

\* the rule of the substage that runs
Running == eng.stage[eng.k]

\* line 263: the pass has a token left to look at
InPass == eng.pc = "scan" /\ eng.sub.i <= Len(eng.sub.tokens)

\* the pass has ended
PassEnded == eng.pc = "scan" /\ eng.sub.i > Len(eng.sub.tokens)

\* a substage that also repeats after a pass that returned as many tokens as
\* it was given
SubstageAgainSame == eng.rsubstage /\ Len(eng.sub.a) <= Len(eng.sub.tokens)

\* line 273: repeat && a.length < tokens.length
SubstageAgain == eng.rsubstage /\ Len(eng.sub.a) < Len(eng.sub.tokens)

\* line 294: rstage && a.length<plen, a being what the last substage returned
StageAgain == eng.rstage /\ Len(eng.sub.a) < eng.plen

\* the entry of the pass that ends in the log
Logged ==
  Append(eng.log, [got |-> eng.got, plen |-> eng.plen, last |-> Len(eng.tokens),
                   out |-> Len(eng.sub.a)])

\* a plen taken from the list the pass that ended returned
PlenOfPass == Len(eng.sub.a)

\* line 291, var plen = tokens.length, when the loop of line 290 comes round:
\* tokens was assigned in the call of line 293, tokens=a, and is what the
\* last substage was given
Plen == Len(eng.tokens)

\* lines 264 and 265: the rule does not match at i, the token is copied
EngineCopy ==
  /\ InPass
  /\ ~Matches(Running, eng.sub.tokens, eng.sub.i)
  /\ eng' = [eng EXCEPT !.sub.a = Append(@, eng.sub.tokens[eng.sub.i]),
                        !.sub.i = @ + 1]
  /\ UNCHANGED <<fvars, ivars, lex, num>>

\* lines 267 to 271: the rule matches at i and its function returns ans
EngineAct ==
  /\ InPass
  /\ Matches(Running, eng.sub.tokens, eng.sub.i)
  /\ \E ans \in Running.f :
       eng' = [eng EXCEPT !.sub.a = @ \o ans,
                          !.sub.i = Resume(@, Running),
                          !.hits = Append(@, [at |-> eng.sub.i, ans |-> ans])]
  /\ UNCHANGED <<fvars, ivars, lex, num>>

\* lines 273 and 262: the substage makes another pass, over what it collected
SubstageRepeat ==
  /\ PassEnded
  /\ SubstageAgain
  /\ eng' = [eng EXCEPT !.sub = SubstageFrame(eng.sub.a), !.hits = <<>>,
                        !.lens = Append(@, Len(eng.sub.a))]
  /\ UNCHANGED <<fvars, ivars, lex, num>>

\* lines 274 and 293: the substage returns and the next one is run on what
\* it returned
SubstageReturn ==
  /\ PassEnded
  /\ ~SubstageAgain
  /\ eng.k < Len(eng.stage)
  /\ eng' = [eng EXCEPT !.a = eng.sub.a, !.tokens = eng.sub.a, !.k = @ + 1,
                        !.sub = SubstageFrame(eng.sub.a), !.hits = <<>>,
                        !.lens = <<Len(eng.sub.a)>>]
  /\ UNCHANGED <<fvars, ivars, lex, num>>

\* lines 294 and 291: the last substage has returned and the stage makes
\* another pass; plen is the length of tokens, which is what the last
\* substage was given
StageRepeat ==
  /\ PassEnded
  /\ ~SubstageAgain
  /\ eng.k = Len(eng.stage)
  /\ StageAgain
  /\ Len(eng.log) + 1 < MaxPasses
  /\ eng' = StageFrame("scan", eng.stage, eng.rsubstage, eng.rstage, eng.sub.a,
                       Plen, 1, Logged)
  /\ UNCHANGED <<fvars, ivars, lex, num>>

\* lines 294 and 295: the stage returns a
StageReturn ==
  /\ PassEnded
  /\ ~SubstageAgain
  /\ eng.k = Len(eng.stage)
  /\ ~StageAgain
  /\ eng' = [eng EXCEPT !.pc = "done", !.a = eng.sub.a, !.log = Logged]
  /\ UNCHANGED <<fvars, ivars, lex, num>>

\* runInformalizeStage is not called
EngineIdle == StageFrame("off", <<>>, FALSE, FALSE, <<>>, 0, 1, <<>>)

\* tokens for the rules to work on: a word, a quoted text, a keyword
Plain == Tok(TokenType.NORMAL, <<"a">>)

Quote == Tok(TokenType.QUOTED, <<"q">>)

Named == Tok(TokenType.KEYWORD, <<"A", "S">>)

\* rules: one for two texts of any kind, one for a quoted text only, one for
\* the keyword AS before a text; outs are the lists the function may return
Pairs(outs) == Rule(<<TokenType.TEXT, TokenType.TEXT>>, <<AnyValue, AnyValue>>, outs)

Quotes(outs) == Rule(<<TokenType.QUOTED>>, <<AnyValue>>, outs)

Aliases(outs) == Rule(<<TokenType.KEYWORD, TokenType.TEXT>>, <<Sub({<<"A", "S">>}), AnyValue>>, outs)

\* the rule tables the stage is run with
EngineStages ==
  { <<Pairs({<<>>, <<Plain>>, <<Plain, Quote>>})>>,
    <<Aliases({<<Named>>, <<Quote>>}), Pairs({<<>>, <<Plain>>, <<Plain, Quote>>})>>,
    <<Quotes({<<>>, <<Quote>>})>>,
    <<Quotes({<<Plain, Plain>>}), Pairs({<<Quote>>})>>,
    <<Aliases({<<Quote>>}), Pairs({<<Quote>>, <<Plain, Plain, Plain>>})>> }

\* the token lists the stage is run on
EngineTokens ==
  { <<>>, <<Plain>>, <<Plain, Plain>>, <<Quote, Quote>>, <<Plain, Quote, Plain>>,
    <<Named, Plain, Plain>>, <<Plain, Plain, Plain, Plain>>,
    <<Quote, Named, Plain, Quote>> }

\* a call of runInformalizeStage: line 288 takes a from tokens, line 291
\* takes plen, the loop of line 292 starts with the first substage
InitEngine ==
  /\ \E stage \in EngineStages, tokens \in EngineTokens, rsubstage, rstage \in BOOLEAN :
       eng = StageFrame("scan", stage, rsubstage, rstage, tokens, Len(tokens), 1, <<>>)
  /\ lex = LexIdle
  /\ num = NumberIdle

\* a call of parseTokens, as convertToInformalSQL makes it
InitText ==
  /\ \E t \in Texts : lex = LexFrame("scan", t, 1, NoQuote, <<>>, <<>>)
  /\ num = NumberIdle
  /\ eng = EngineIdle

\* a call of processNumberTokens
InitNumber ==
  /\ \E p \in NumberInputs : num = NumberFrame("scan", p.tokens, p.given)
  /\ lex = LexIdle
  /\ eng = EngineIdle

\* neither parseTokens nor processNumberTokens nor the stage alone is called
InitLexicalIdle ==
  /\ lex = LexIdle
  /\ num = NumberIdle
  /\ eng = EngineIdle

\* convertToInformalSQL is not called
InitInformalIdle ==
  /\ istate = EmptyState
  /\ itokens = <<>>
  /\ iopt = InformalizeOptions(UndefinedStr, JsUndefined)
  /\ ipc = "off"
  /\ isql = <<>>
  /\ iblk = <<>>
  /\ ifn = <<>>
  /\ icolumns = <<>>
  /\ icalls = <<>>

\* convertToFormalSQL is not called
InitFormalIdle ==
  /\ txt = <<>>
  /\ ast = [type |-> "none"]
  /\ ast0 = [type |-> "none"]
  /\ opt = NoOptions
  /\ pc = "off"

\* a call of convertToFormalSQL
InitFormal ==
  /\ \E inp \in Inputs :
       /\ txt = inp.txt
       /\ ast = inp.ast
       /\ ast0 = inp.ast
       /\ opt = inp.opt
  /\ pc = "idle"
  /\ InitInformalIdle

\* a call of convertToInformalSQL
InitInformal ==
  /\ \E inp \in InformalInputs :
       /\ itokens = inp.tokens
       /\ ifn = inp.fn
       /\ iopt = inp.opt
  /\ ipc = "idle"
  /\ istate = EmptyState
  /\ isql = <<>>
  /\ iblk = <<>>
  /\ icolumns = <<>>
  /\ icalls = <<>>
  /\ InitFormalIdle

Init ==
  /\ \/ InitFormal /\ InitLexicalIdle
     \/ InitInformal /\ InitLexicalIdle
     \/ InitText /\ InitFormalIdle /\ InitInformalIdle
     \/ InitNumber /\ InitFormalIdle /\ InitInformalIdle
     \/ InitEngine /\ InitFormalIdle /\ InitInformalIdle
  /\ run = 1
  /\ calls = <<>>
  /\ scanAns = <<>>
  /\ tweakAns = NoSlots
  /\ scn = [from |-> <<>>, where |-> <<>>]
  /\ errText = <<>>
  /\ out = JsNull
  /\ out1 = JsNull

Next ==
  \/ Start
  \/ FromResolve
  \/ ColResolve
  \/ Reject
  \/ Return
  \/ Rerun
  \/ InformalStart
  \/ MatcherResolve
  \/ MatcherReject
  \/ ParseChar
  \/ ParseEnd
  \/ NumberToken
  \/ NumberEnd
  \/ EngineCopy
  \/ EngineAct
  \/ SubstageRepeat
  \/ SubstageReturn
  \/ StageRepeat
  \/ StageReturn

Spec == Init /\ [][Next]_vars

\* the steps of runInformalizeStage
EngineNext ==
  \/ EngineCopy
  \/ EngineAct
  \/ SubstageRepeat
  \/ SubstageReturn
  \/ StageRepeat
  \/ StageReturn

\* runInformalizeStage is synchronous code: once called it runs on
LiveSpec == Spec /\ WF_vars(EngineNext)

-----------------------------------------------------------------------------
(* What the claims speak about. *)

\* the first conversion has returned its SQL
Converted == pc = "done" /\ run = 1

IsColumnsCall(c) == c.type = "columns"

IsFromCall(c) == c.type = "from"

\* the answers to the calls of one kind, in the order of the source
AnswersOf(cs) == Flatten([k \in 1..Len(cs) |-> cs[k].ans])

RECURSIVE Distinct(_)
\* a list without its repetitions, first occurrences kept
Distinct(seq) ==
  IF seq = <<>> THEN seq
  ELSE LET d == Distinct(SubSeq(seq, 1, Len(seq) - 1))
       IN  IF seq[Len(seq)] \in Range(d) THEN d ELSE Append(d, seq[Len(seq)])

\* the SELECT list is made of unaliased column references without hint
PlainColumns(tree) ==
  /\ tree.columns.type = "js_array"
  /\ \A i \in 1..Len(tree.columns.items) :
       /\ tree.columns.items[i].expr.type = "column_ref"
       /\ tree.columns.items[i].as = NullStr
       /\ HintOf(tree.columns.items[i].expr.column) = "null"

\* every column of the SELECT list was answered with identifiers
IdentifierAnswers ==
  \A v \in Range(AnswersOf(SelectSeq(calls, IsColumnsCall))) : IDENTIFIER(v)

\* C1: when the SELECT list holds n unaliased column references without hint
\* and the resolution function answers the i-th with k_i identifiers, the
\* output SELECT list holds k_1+...+k_n entries: the values of column 1 in
\* returned order, then those of column 2, and so on, whatever the order in
\* which the calls completed.
C1_ColumnsInSourceOrder ==
  (Converted /\ PlainColumns(ast0) /\ IdentifierAnswers) =>
    LET vs == AnswersOf(SelectSeq(calls, IsColumnsCall))
    IN  /\ Len(out.columns.items) = Len(vs)
        /\ \A j \in 1..Len(vs) : out.columns.items[j].expr = parseValueAST(vs[j])

\* two columns, three values in all, none of them lost or moved
C1_Witness ==
  /\ Converted /\ PlainColumns(ast0) /\ IdentifierAnswers
  /\ Len(ast0.columns.items) = 2
  /\ Len(out.columns.items) = 3
  /\ out.columns.items[1].expr # out.columns.items[3].expr

RECURSIVE ResolvedFrom(_, _, _)
\* an expression after ast[k] = ans[0] for each of its calls of one type
ResolvedFrom(node, cs, type) ==
  IF cs = <<>> THEN node
  ELSE ResolvedFrom(
         IF cs[1].type = type
           THEN SetAt(node, cs[1].path, First(resolveColumnAST(cs[1].hint, cs[1].ans)))
           ELSE node,
         Tail(cs), type)

\* the WHERE of the input with its column references resolved
ResolvedWhere == ResolvedFrom(ast0.where, calls, "where")

IsAnd(node) == node.type = "binary_expr" /\ node.operator = <<"A", "N", "D">>

\* C2 (as claimed): after the conversion the WHERE is an AND node; its left
\* operand is the literal TRUE when the input had no WHERE and otherwise the
\* input's resolved WHERE, parenthesized; its right operand is the literal
\* TRUE when table resolution collected no predicate.
C2_WhereSkeleton ==
  Converted =>
    /\ IsAnd(out.where)
    /\ out.where.left = IF IsNullish(ast0.where) THEN BoolAST(TRUE)
                        ELSE WithParentheses(ResolvedWhere)
    /\ scn.where = <<>> => out.where.right = BoolAST(TRUE)

\* the part of C2 that holds: an input WHERE that is still an expression
\* after resolution is the parenthesized left operand
C2_Holds ==
  (Converted /\ (IsNullish(ast0.where) \/ ~IsNullish(ResolvedWhere))) =>
    /\ IsAnd(out.where)
    /\ out.where.left = IF IsNullish(ast0.where) THEN BoolAST(TRUE)
                        ELSE WithParentheses(ResolvedWhere)
    /\ scn.where = <<>> => out.where.right = BoolAST(TRUE)

\* an input WHERE made of one column reference that resolved to no value:
\* the conversion returns, and the condition is gone
C2_Dropped ==
  /\ Converted
  /\ ~IsNullish(ast0.where)
  /\ out.where = createBinaryExprAST(<<"A", "N", "D">>, BoolAST(TRUE), BoolAST(TRUE), FALSE)

RECURSIVE OrLeaves(_)
\* the operands of an OR-chain, from left to right
OrLeaves(node) ==
  IF node.type = "binary_expr" /\ node.operator = <<"O", "R">> /\ ~node.parentheses
    THEN OrLeaves(node.left) \o OrLeaves(node.right)
    ELSE <<node>>

\* a predicate as the parser returns it, the text-search operator restored
Predicate(p) == FalseOr(p).right

\* C3: with k >= 1 predicates from table resolution, the first splice puts
\* the parenthesized (FALSE OR p1) in place of the right TRUE; after all
\* splices the OR-chain holds FALSE and then every predicate once, in
\* collection order; the left operand of the root is what it was before.
C3_OrChain ==
  (Converted /\ Len(scn.where) >= 1) =>
    /\ IsAnd(out.where)
    /\ appendWhereAST([out EXCEPT !.where.right = BoolAST(TRUE)], scn.where[1]).where.right
         = createBinaryExprAST(<<"O", "R">>, BoolAST(FALSE), Predicate(scn.where[1]), TRUE)
    /\ out.where.right.type = "binary_expr"
    /\ out.where.right.operator = <<"O", "R">>
    /\ out.where.right.parentheses
    /\ OrLeaves(out.where.right.left) \o OrLeaves(out.where.right.right)
         = <<BoolAST(FALSE)>> \o [i \in 1..Len(scn.where) |-> Predicate(scn.where[i])]
    /\ out.where.left = IF IsNullish(ast0.where) THEN BoolAST(TRUE)
                        ELSE WithParentheses(ResolvedWhere)

\* three predicates, from two tables, behind an input WHERE
C3_Witness ==
  /\ Converted
  /\ Len(scn.where) = 3
  /\ ~IsNullish(ast0.where)
  /\ Len(OrLeaves(out.where.right.right)) = 3

\* the identifiers table resolution returned, dequoted, in FROM order
TableAnswers ==
  LET vs == SelectSeq(AnswersOf(SelectSeq(calls, IsFromCall)), IDENTIFIER)
  IN  [i \in 1..Len(vs) |-> dequoteIdentifier(vs[i])]

OutTables == [i \in 1..Len(out.from) |-> out.from[i].table]

\* C4: the output FROM lists the distinct identifiers table resolution
\* returned, in first-occurrence order, when there is one; otherwise the
\* default table of the options when supplied; otherwise the table named
\* null.  A predicate never appears in FROM.
C4_FromList ==
  Converted =>
    /\ OutTables = IF TableAnswers # <<>> THEN Distinct(TableAnswers)
                   ELSE IF opt.from # UndefinedStr THEN <<opt.from>>
                   ELSE << <<"n", "u", "l", "l">> >>
    /\ \A i \in 1..Len(OutTables) : OutTables[i] \notin Range(scn.where)

\* one table returned twice, by two calls, and listed once
C4_Witness ==
  /\ Converted
  /\ Len(TableAnswers) > Len(OutTables)
  /\ Len(OutTables) = 2
  /\ scn.where # <<>>

\* C5: on a statement that is not a SELECT the conversion fails with an
\* error that carries the text it was handed, and no call of the resolution
\* function is made.
C5_OnlySelect ==
  (ast0.type \notin {"select", "none"} /\ pc # "idle") =>
    /\ pc = "failed"
    /\ Len(errText) = Len(txt) + 2
    /\ SubSeq(errText, 2, Len(errText) - 1) = txt
    /\ calls = <<>>
    /\ out = JsNull

\* a statement that is no SELECT, in a text with a comment
C5_Witness ==
  /\ pc = "failed"
  /\ ast0.type = "update"
  /\ clearSQLComments(txt) # txt
  /\ errText # <<>>

Rejected == \E i \in 1..Len(calls) : calls[i].status = "rejected"

\* a call of the entity matcher rejected
MatcherRejected == \E b \in 1..Len(iblk) : iblk[b].settled = "rejected"

\* C6: once a call of the resolution function has rejected, the conversion
\* to formal SQL has failed and never returns SQL, whatever the other calls
\* do; once a call of the entity matcher has rejected, the conversion to
\* informal SQL has failed and never returns a string, whatever the other
\* calls do.
C6_RejectionFails ==
  /\ Rejected => (pc = "failed" /\ out = JsNull)
  /\ MatcherRejected => (ipc = "failed" /\ isql = <<>>)

\* one call rejected, and every other call resolved after it
C6_Witness ==
  /\ Rejected
  /\ Len(calls) >= 3
  /\ \E i \in 1..Len(calls) : calls[i].type # "from" /\ calls[i].status = "resolved"
  /\ \A i \in 1..Len(calls) : calls[i].status # "pending"

\* the maximum the conversion applied
AppliedMaximum == LimitFor(opt, out.from[1].table)

\* the LIMIT of the input, a number of rows
ExplicitLimit == ast0.limit.items[2].value

\* C7: when a maximum m applies, the output LIMIT is min(e, m) for an input
\* with LIMIT e and m for an input without: never more than m, and an
\* explicit limit below m is kept.
C7_LimitCapped ==
  (Converted /\ AppliedMaximum # 0) =>
    /\ Len(out.limit.items) = 1
    /\ out.limit.items[1].value =
         IF IsNullish(ast0.limit) THEN AppliedMaximum
         ELSE IF ExplicitLimit <= AppliedMaximum THEN ExplicitLimit
         ELSE AppliedMaximum

\* an explicit limit above the maximum comes out as the maximum
C7_Witness ==
  /\ Converted
  /\ AppliedMaximum # 0
  /\ ~IsNullish(ast0.limit)
  /\ ExplicitLimit > AppliedMaximum
  /\ out.limit.items[1].value = AppliedMaximum

\* the maximum the options document for a table
DocumentedMaximum(table) ==
  IF IsTruthy(opt.limits) /\ table \in DOMAIN opt.limits.map
    THEN opt.limits.map[table]
    ELSE opt.limit

\* C8 (as claimed): the maximum is the one of options.limits for the first
\* output table when there is one, else options.limit when it is set, for
\* every combination of the options.
C8_MaximumChosen ==
  Converted => AppliedMaximum = DocumentedMaximum(out.from[1].table)

\* the part of C8 that holds: with no options.limits, or with an entry for
\* the table in it
C8_Holds ==
  (Converted /\ (~IsTruthy(opt.limits) \/ out.from[1].table \in DOMAIN opt.limits.map)) =>
    AppliedMaximum = DocumentedMaximum(out.from[1].table)

\* options.limits without the table, options.limit set: no LIMIT is applied
C8_NoMaximum ==
  /\ Converted
  /\ IsTruthy(opt.limits)
  /\ out.from[1].table \notin DOMAIN opt.limits.map
  /\ opt.limit # 0
  /\ IsNullish(out.limit)

\* the second conversion has returned its SQL
Reconverted == pc = "done" /\ run = 2

RECURSIVE Replaced(_)
\* an expression whose column references are replaced by what they resolve
\* to under the identity: the same references, not parenthesized
Replaced(node) ==
  IF node.type = "column_ref" THEN createColumnAST(node.column)
  ELSE IF node.type = "binary_expr"
    THEN [node EXCEPT !.left = Replaced(node.left), !.right = Replaced(node.right)]
  ELSE node

EntityTokens == FlattenBlocks(iblk)

\* the names of the entities of a type among them, double-quoted, in order
QuotedEntities(type) ==
  [k \in 1..Len(SelectSeq(EntityTokens, LAMBDA t : t.type = type)) |->
     Quoted(SelectSeq(EntityTokens, LAMBDA t : t.type = type)[k].value)]

RECURSIVE HintDefaults(_)
\* the default columns the options give for the hints, in order
HintDefaults(hints) ==
  IF hints = <<>> THEN <<>>
  ELSE iopt.columns.map[Head(hints)] \o HintDefaults(Tail(hints))

\* a string was returned, with no SELECT column, wildcard, GROUP BY or ORDER BY
\* collected, for a text with a Column entity in its conditions
ProjectionFromConditions ==
  /\ ipc = "done"
  /\ istate.columns = <<>>
  /\ istate.groupBy = <<>>
  /\ istate.orderBy = <<>>
  /\ QuotedEntities(TokenType.COLUMN) # <<>>

\* the FROM targets are the Table entities, double-quoted
FromIsTables ==
  QuotedEntities(TokenType.TABLE) # <<>> => istate.from = QuotedEntities(TokenType.TABLE)

\* C10 as the specification states it: with no SELECT column, wildcard, GROUP
\* BY or ORDER BY collected, the projection is exactly the columns of the
\* conditions, double-quoted, each once, in the order of their first
\* reference, and the Table entity is the FROM target.
C10_Projection ==
  ProjectionFromConditions =>
    /\ icolumns = SetOf(QuotedEntities(TokenType.COLUMN))
    /\ FromIsTables

\* C10, amended: with no SELECT column, wildcard, GROUP BY or ORDER BY
\* collected, the projection is the default columns of the hints the entities
\* carry, followed by the columns of the conditions, double-quoted, each entry
\* once, in the order of first reference; so it is exactly the columns of the
\* conditions when no entity carries a hint.  The Table entity is the FROM
\* target.
C10_ProjectionAfterDefaults ==
  ProjectionFromConditions =>
    /\ icolumns = SetOf(HintDefaults(istate.hints) \o QuotedEntities(TokenType.COLUMN))
    /\ istate.hints = <<>> => icolumns = SetOf(QuotedEntities(TokenType.COLUMN))
    /\ FromIsTables

\* a column referenced twice and another one between, found with a hint, and
\* a table
C10_Witness ==
  /\ ProjectionFromConditions
  /\ Len(QuotedEntities(TokenType.COLUMN)) > Len(SetOf(QuotedEntities(TokenType.COLUMN)))
  /\ Len(SetOf(QuotedEntities(TokenType.COLUMN))) > 1
  /\ QuotedEntities(TokenType.TABLE) # <<>>
  /\ istate.hints # <<>>
  /\ Len(icolumns) > Len(SetOf(QuotedEntities(TokenType.COLUMN)))

-----------------------------------------------------------------------------
(* C11: the clauses of the informal query string.                          *)

\* the tokens the stages of processTokensInformalize start from
StageTokens == WithSelect(WithoutSeparators(WithKeyword(WithoutPunctuation(EntityTokens))))

\* the accumulators as the last stage leaves them, before line 362
Accumulated ==
  RunStages(Stages, [EmptyState EXCEPT !.hints = HintsOf(StageTokens)], StageTokens).s

\* a condition accumulator as it is emitted
Emitted(text) ==
  IF Len(text) >= 4 /\ SubSeq(text, 1, 4) = <<"A", "N", "D", " ">>
  THEN SubSeq(text, 5, Len(text))
  ELSE text

\* the keyword and the content of a clause, or nothing when there is no content
Clause(keyword, present, content) == IF present THEN keyword \o content ELSE <<>>

\* SELECT, FROM and the five clauses in their order, from the accumulators acc
ClausesOf(acc, columns, from) ==
  <<"S", "E", "L", "E", "C", "T", " ">> \o JoinText(columns, <<",", " ">>) \o <<" ", "F", "R", "O", "M", " ">> \o JoinText(from, <<",", " ">>)
  \o Clause(<<" ", "W", "H", "E", "R", "E", " ">>, acc.where # <<>>, Emitted(acc.where))
  \o Clause(<<" ", "G", "R", "O", "U", "P", " ", "B", "Y", " ">>, acc.groupBy # <<>>, JoinText(acc.groupBy, <<",", " ">>))
  \o Clause(<<" ", "O", "R", "D", "E", "R", " ", "B", "Y", " ">>, acc.orderBy # <<>>, JoinText(acc.orderBy, <<",", " ">>))
  \o Clause(<<" ", "H", "A", "V", "I", "N", "G", " ">>, acc.having # <<>>, Emitted(acc.having))
  \o Clause(<<" ", "L", "I", "M", "I", "T", " ">>, Positive(acc.limit), acc.limit)

\* C11: the informal query string is SELECT <columns> FROM <tables> followed by
\* WHERE, GROUP BY, ORDER BY, HAVING and LIMIT in this order, each present
\* exactly when its accumulator has content (LIMIT exactly when the limit is
\* above 0), the conditions without their leading `AND `
C11_ClauseOrder ==
  ipc = "done" => isql = ClausesOf(Accumulated, icolumns, istate.from)

\* a query with all five clauses, whose two conditions were collected with a
\* leading `AND `
C11_Witness ==
  /\ ipc = "done"
  /\ istate.where # <<>> /\ istate.groupBy # <<>> /\ istate.orderBy # <<>>
  /\ istate.having # <<>> /\ Positive(istate.limit)
  /\ StartsWith(Accumulated.where, <<"A", "N", "D", " ">>)
  /\ StartsWith(Accumulated.having, <<"A", "N", "D", " ">>)

-----------------------------------------------------------------------------
(* C12: what processColumnsInformalize adds to the SELECT columns.         *)

\* the SELECT columns the stages collected, '"*"' read as '*'
ExplicitColumns == Range(Starred(SetOf(istate.columns)))

Wildcard == <<"*">> \in ExplicitColumns

\* the default columns of the hints, which are read unless '*' is selected
DefaultColumns == IF Wildcard THEN {} ELSE Range(HintDefaults(istate.hints))

\* the ORDER BY expressions without their direction
SortKeys == {WithoutDirection(istate.orderBy[k]) : k \in 1..Len(istate.orderBy)}

\* the SELECT columns, the hint defaults and the GROUP BY columns
Selected == ExplicitColumns \cup DefaultColumns \cup Range(istate.groupBy)

\* C12: ORDER BY expressions and referenced columns are added to the projection
\* only when no SELECT column was collected, and referenced columns only when
\* no GROUP BY was collected either; with SELECT columns collected the
\* projection holds only them, the hint defaults and the GROUP BY columns
C12_OnlyWithoutExplicit ==
  ipc = "done" =>
    /\ istate.columns # <<>> => Range(icolumns) \subseteq Selected
    /\ istate.groupBy # <<>> => Range(icolumns) \subseteq Selected \cup SortKeys

\* what the code adds: the ORDER BY expressions and, without GROUP BY, the
\* referenced columns, whenever '*' is not among the SELECT columns
Added ==
  IF Wildcard THEN {}
  ELSE SortKeys \cup (IF istate.groupBy # <<>> THEN {} ELSE Range(istate.columnsUsed))

C12_Holds ==
  ipc = "done" =>
    Range(icolumns) = IF Selected \cup Added = {} THEN {<<"*">>} ELSE Selected \cup Added

\* a SELECT column was collected and the projection holds a column that was
\* only referenced in a condition
C12_Added ==
  /\ ipc = "done"
  /\ istate.columns # <<>>
  /\ \E c \in Range(icolumns) : c \notin Selected /\ c \in Range(istate.columnsUsed)

-----------------------------------------------------------------------------
(* C13: a scan covers every word of its run once.                          *)

\* the calls of the matcher that the scan of block b issued, in order
CallsOf(b) == SelectSeq(icalls, LAMBDA c : c.run = b)

\* the words an answer of the matcher stands for
Advance(ans) == IF ans.null THEN 1 ELSE ans.length

\* words without its first n
Drop(words, n) == SubSeq(words, n + 1, Len(words))

\* token t is what the answer to call c is to give: the first word as text
\* for null, the entity with the value and the hint of the match otherwise
Emits(t, c) ==
  IF c.ans.null
  THEN t = [type |-> TokenType.TEXT, value |-> Head(c.words), hint |-> NullStr]
  ELSE /\ t.type \in {TokenType.TABLE, TokenType.COLUMN, TokenType.ROW}
       /\ t.value = c.ans.value
       /\ t.hint = c.ans.hint

\* block b, a run of words, against the calls cs of its scan
RunCovered(b, cs) ==
  /\ cs # <<>>
  /\ cs[1].words = b.txts
  /\ \A k \in 1..(Len(cs) - 1) :
       /\ cs[k].state = "resolved"
       /\ cs[k + 1].words = Drop(cs[k].words, Advance(cs[k].ans))
  /\ Len(b.a) = Cardinality({k \in 1..Len(cs) : cs[k].state = "resolved"})
  /\ \A k \in 1..Len(b.a) : Emits(b.a[k], cs[k])
  /\ b.settled = "resolved" =>
       /\ cs[Len(cs)].state = "resolved"
       /\ Len(cs[Len(cs)].words) = Advance(cs[Len(cs)].ans)

\* C13: in the scan of a run of words, with a matcher whose matches have a
\* length from 1 to the number of words that remain, the first call gets the
\* whole run and every later call the words that remain after the word (null)
\* or the length words (match) of the call before it; every answer gives one
\* token, in the order of the words, and the last answer ends the run exactly
C13_RunCovered ==
  \A b \in 1..Len(iblk) : iblk[b].txts # <<>> => RunCovered(iblk[b], CallsOf(b))

\* a run of four words is scanned to the end: a word that is no entity, an
\* entity of two words and an entity of one word
C13_Witness ==
  \E b \in 1..Len(iblk) :
    /\ iblk[b].settled = "resolved"
    /\ Len(iblk[b].txts) = 4
    /\ Len(iblk[b].a) = 3
    /\ \E k \in 1..Len(icalls) : icalls[k].run = b /\ icalls[k].ans.null /\ icalls[k].state = "resolved"
    /\ \E k \in 1..Len(icalls) : icalls[k].run = b /\ ~icalls[k].ans.null /\ icalls[k].ans.length = 2

-----------------------------------------------------------------------------
(* C14: the runs of words are scanned side by side and put back in order.  *)

RECURSIVE ScanWords(_)
\* the tokens of a run of words when its words are looked up one after the
\* other, from left to right
ScanWords(words) ==
  IF words = <<>> THEN <<>>
  ELSE IF Match(ifn, words).null
  THEN <<[type |-> TokenType.TEXT, value |-> Head(words), hint |-> NullStr]>>
       \o ScanWords(Tail(words))
  ELSE <<[type |-> EntityType(Match(ifn, words).type), value |-> Match(ifn, words).value,
          hint |-> Match(ifn, words).hint]>>
       \o ScanWords(Drop(words, Match(ifn, words).length))

RECURSIVE InOrder(_, _)
\* the tokens with every run of words txts scanned where it stands and every
\* other token left as it is
InOrder(tokens, txts) ==
  IF tokens = <<>> THEN ScanWords(txts)
  ELSE IF Family(Head(tokens).type) = TokenType.TEXT
  THEN InOrder(Tail(tokens), Append(txts, Head(tokens).value))
  ELSE ScanWords(txts) \o <<Head(tokens)>> \o InOrder(Tail(tokens), <<>>)

\* every call of a run but its last has resolved
OneCallAtATime ==
  \A c, d \in 1..Len(icalls) :
    c < d /\ icalls[c].run = icalls[d].run => icalls[c].state = "resolved"

\* C14: whatever the order in which the calls of the matcher resolve, the
\* tokens that processEntityTokens returns are those of the runs in the order
\* of the runs, with every token that is no word unchanged between them, and
\* the string is made from these tokens; a run calls the matcher again only
\* after its call before has resolved
C14_RunOrder ==
  /\ ipc \in {"done", "failed"} /\ AllSettled(iblk) => EntityTokens = InOrder(itokens, <<>>)
  /\ ipc = "done" => isql = Informalize(InOrder(itokens, <<>>), iopt).sql
  /\ OneCallAtATime

\* a string was returned after a call of a later run resolved before a call
\* of an earlier run, with a keyword between the two runs
C14_Witness ==
  /\ ipc = "done"
  /\ \E d \in 1..Len(icalls) :
       /\ icalls[d].early
       /\ \E b \in 1..(icalls[d].run - 1) : iblk[b].txts = <<>>

-----------------------------------------------------------------------------
(* C15: the expression of a column under hint sum.                         *)

IsSumCall(c) == c.type = "columns" /\ c.hint = "sum"

\* the values the resolution function gave for the column under hint sum, as
\* parseValueAST reads them
SumValues ==
  LET c == SelectSeq(calls, IsSumCall)[1]
  IN  [i \in 1..Len(c.ans) |-> parseValueAST(c.ans[i])]

\* the conversion returned and its SELECT list ends with a column under hint
\* sum that has no alias
SumConverted ==
  /\ Converted
  /\ SelectSeq(calls, IsSumCall) # <<>>
  /\ IsSumCall(calls[Len(calls)])

\* the expression that stands for the column in the output
SumExpr == out.columns.items[Len(out.columns.items)].expr

RECURSIVE IsLeftChain(_, _, _)
\* node is ((vs[1] + vs[2]) + ...) + vs[n]
IsLeftChain(node, vs, n) ==
  IF n = 1 THEN node = vs[1]
  ELSE /\ node.type = "binary_expr"
       /\ node.operator = <<"+">>
       /\ node.right = vs[n]
       /\ IsLeftChain(node.left, vs, n - 1)

\* C15: under hint sum the values v1..vn become the number 0 when n = 0, v1
\* when n = 1 and, from n = 2 on, the chain ((v1 + v2) + v3) ... + vn that is
\* nested on the left, its outermost node in parentheses
C15_LeftAssociative ==
  SumConverted =>
    IF Len(SumValues) = 0 THEN SumExpr = createNumberAST(0)
    ELSE IF Len(SumValues) = 1 THEN SumExpr = SumValues[1]
    ELSE IsLeftChain(SumExpr, SumValues, Len(SumValues)) /\ SumExpr.parentheses

RECURSIVE LeftChain(_, _, _)
\* (vs[lo] + vs[lo+1]) + ... + vs[hi], nested on the left
LeftChain(vs, lo, hi) ==
  IF hi = lo THEN vs[lo]
  ELSE createBinaryExprAST(<<"+">>, LeftChain(vs, lo, hi - 1), vs[hi], FALSE)

\* the sum of vs as the code builds it: v1 + (the chain of v2..vn nested on
\* the left), in parentheses
SumOf(vs) ==
  IF Len(vs) = 0 THEN createNumberAST(0)
  ELSE IF Len(vs) = 1 THEN vs[1]
  ELSE createBinaryExprAST(<<"+">>, vs[1], LeftChain(vs, 2, Len(vs)), TRUE)

\* the claimed chain of two values or more, the outermost node in parentheses
ClaimedSum(vs) == [LeftChain(vs, 1, Len(vs)) EXCEPT !.parentheses = TRUE]

\* the amended C15: under hint sum the values v1..vn become the number 0 when
\* n = 0, v1 when n = 1 and, from n = 2 on, one + node in parentheses whose
\* left operand is v1 and whose right operand is v2 (n = 2) or the chain
\* ((v2 + v3) + ...) + vn nested on the left; every value occurs once, in
\* order, and the text of the expression (the alias of the column) is that of
\* the chain nested on the left, (v1 + v2 + ... + vn)
C15_SumShape ==
  SumConverted =>
    /\ SumExpr = SumOf(SumValues)
    /\ Len(SumValues) >= 2 =>
         out.columns.items[Len(out.columns.items)].as
           = stringifyExprAST(ClaimedSum(SumValues))

\* a column under hint sum was answered with three values
C15_Witness == SumConverted /\ Len(SumValues) = 3

-----------------------------------------------------------------------------
(* C16: the aliases of the output columns.                                 *)

\* the SELECT list is made of column references without hint
ColumnRefs(tree) ==
  /\ tree.columns.type = "js_array"
  /\ \A i \in 1..Len(tree.columns.items) :
       /\ tree.columns.items[i].expr.type = "column_ref"
       /\ HintOf(tree.columns.items[i].expr.column) = "null"

\* every value answered for the SELECT list is read as a column reference
ColumnRefAnswers ==
  \A v \in Range(AnswersOf(SelectSeq(calls, IsColumnsCall))) :
    parseValueAST(v).type = "column_ref"

\* for every output column, in order: the SELECT item it comes from, the
\* name it resolved to and the number n of values the item resolved to
OriginsOf(cs) ==
  Flatten([i \in 1..Len(cs) |->
             [k \in 1..Len(cs[i].ans) |->
                [item |-> ast0.columns.items[i],
                 name |-> parseValueAST(cs[i].ans[k]).column,
                 n |-> Len(cs[i].ans)]]])

Origins == OriginsOf(SelectSeq(calls, IsColumnsCall))

\* the conversion returned for a SELECT list of column references that
\* resolved to column references
ColumnsConverted == Converted /\ ColumnRefs(ast0) /\ ColumnRefAnswers

\* C16: an output column of a SELECT item with an alias has exactly this alias,
\* whatever the number of values of the item; an output column of an item
\* without alias that resolved to more than one value has the alias
\* `<original name>: <resolved name>`
C16_AliasKept ==
  ColumnsConverted =>
    \A j \in 1..Len(Origins) :
      /\ Origins[j].item.as # NullStr => out.columns.items[j].as = Origins[j].item.as
      /\ (Origins[j].item.as = NullStr /\ Origins[j].n > 1) =>
           out.columns.items[j].as
             = Origins[j].item.expr.column \o <<":", " ">> \o Origins[j].name

\* the amended C16: an output column of a SELECT item with an alias has this
\* alias when the item resolved to one value and `<alias>: <resolved name>`
\* when it resolved to more than one; an output column of an item without
\* alias has no alias, whatever the number of values
C16_AliasFormat ==
  ColumnsConverted =>
    /\ Len(out.columns.items) = Len(Origins)
    /\ \A j \in 1..Len(Origins) :
         out.columns.items[j].as =
           IF Origins[j].item.as = NullStr THEN NullStr
           ELSE IF Origins[j].n > 1
           THEN Origins[j].item.as \o <<":", " ">> \o Origins[j].name
           ELSE Origins[j].item.as

\* an item with an alias resolved to two columns or more, next to an item
\* without alias that resolved to two columns or more
C16_Witness ==
  /\ ColumnsConverted
  /\ \E j \in 1..Len(Origins) : Origins[j].item.as # NullStr /\ Origins[j].n > 1
  /\ \E j \in 1..Len(Origins) : Origins[j].item.as = NullStr /\ Origins[j].n > 1

-----------------------------------------------------------------------------
(* C17: how the values of the resolution function are read.                *)

\* number literal syntax: digits
NumberLiteral(v) == Len(v) >= 1 /\ \A i \in 1..Len(v) : v[i] \in DigitChars

\* a string between single quotes
QuotedString(v) ==
  /\ Len(v) >= 2
  /\ v[1] = "'" /\ v[Len(v)] = "'"
  /\ \A i \in 2..(Len(v) - 1) : v[i] # "'"

\* a bare word, * or a name between double quotes
NameSyntax(v) ==
  \/ v = <<"*">>
  \/ Len(v) >= 1 /\ \A i \in 1..Len(v) : v[i] \in WordChars
  \/ Len(v) >= 2 /\ v[1] = "\"" /\ v[Len(v)] = "\"" /\ \A i \in 2..(Len(v) - 1) : v[i] # "\""

\* node is what the documented order of classification gives for v; nothing
\* is asked of a value that is left to the parser of expressions
ReadAsDocumented(node, v) ==
  IF LowerStr(v) = <<"n", "u", "l", "l">> THEN node.type = "null"
  ELSE IF LowerStr(v) \in {<<"t", "r", "u", "e">>, <<"f", "a", "l", "s", "e">>}
  THEN node.type = "bool" /\ node.value = (LowerStr(v) = <<"t", "r", "u", "e">>)
  ELSE IF NumberLiteral(v)
  THEN node.type = "number" /\ "isNaN" \notin DOMAIN node /\ node.value = DecimalValue(v)
  ELSE IF QuotedString(v)
  THEN node.type = "string" /\ node.value = SubSeq(v, 2, Len(v) - 1)
  ELSE IF NameSyntax(v)
  THEN /\ node.type = "column_ref"
       /\ node.column = (IF v[1] = "\"" THEN SubSeq(v, 2, Len(v) - 1) ELSE v)
  ELSE TRUE

\* the values answered for the SELECT list, in the order of the source
ColumnValues == AnswersOf(SelectSeq(calls, IsColumnsCall))

\* C17: every string the resolution function returns for a column is read as
\* null, then as a boolean, then as a number literal of any length, then as a
\* string between single quotes of any length, then as a column reference (a
\* bare word, * or a name between double quotes, the quotes removed), and as
\* an expression otherwise
C17_ReadInOrder ==
  (Converted /\ PlainColumns(ast0)) =>
    /\ Len(out.columns.items) = Len(ColumnValues)
    /\ \A j \in 1..Len(ColumnValues) :
         ReadAsDocumented(out.columns.items[j].expr, ColumnValues[j])

\* what holds: every value is read by parseValueAST, whose NUMBER and STRING
\* patterns match one character only
C17_Holds ==
  (Converted /\ PlainColumns(ast0)) =>
    /\ Len(out.columns.items) = Len(ColumnValues)
    /\ \A j \in 1..Len(ColumnValues) :
         /\ out.columns.items[j].expr = parseValueAST(ColumnValues[j])
         /\ Len(ColumnValues[j]) = 1 /\ ColumnValues[j] # <<"e">> =>
              ReadAsDocumented(out.columns.items[j].expr, ColumnValues[j])

\* the number 12 was answered and the output has a column named 12; the
\* word e was answered and the output has a number that is no number
C17_NumberAsColumn ==
  /\ Converted /\ PlainColumns(ast0)
  /\ \E j \in 1..Len(ColumnValues) :
       /\ ColumnValues[j] = <<"1", "2">>
       /\ out.columns.items[j].expr = createColumnAST(<<"1", "2">>)
  /\ \E j \in 1..Len(ColumnValues) :
       /\ ColumnValues[j] = <<"e">>
       /\ out.columns.items[j].expr = NaNAST

-----------------------------------------------------------------------------
(* C18: what stands in the place of the column references after            *)
(* resolution.                                                             *)

IsColumnCall(c) == c.type # "from"

\* every call of the resolution function has resolved and the conversion has
\* come to its end
AfterResolution ==
  /\ run = 1
  /\ pc \in {"done", "failed"}
  /\ ast0.type = "select"
  /\ SelectSeq(calls, IsColumnCall) # <<>>
  /\ AllResolved(calls)

\* C18: after resolution every column-reference leaf of the columns, WHERE,
\* HAVING, ORDER BY and GROUP BY has been replaced by a resolved value, an
\* expression or a literal, whatever list the resolution function returned,
\* the empty list included: no place of a leaf is left without a node
C18_LeavesReplaced ==
  AfterResolution => \A e \in TreeExprs(ast) : ~ContainsType(e, {"js_undefined"})

\* what holds: the leaves are replaced when no call for a leaf inside an
\* expression was answered with the empty list
C18_Holds ==
  (AfterResolution /\ \A i \in 1..Len(calls) : calls[i].path # <<>> => calls[i].ans # <<>>)
    => \A e \in TreeExprs(ast) : ~ContainsType(e, {"js_undefined"})

\* a column inside a condition was answered with the empty list: its place in
\* the tree holds undefined and the conversion has failed
C18_Undefined ==
  /\ AfterResolution
  /\ pc = "failed"
  /\ \E i \in 1..Len(calls) : calls[i].path # <<>> /\ calls[i].ans = <<>>
  /\ \E e \in TreeExprs(ast) : ContainsType(e, {"js_undefined"})

-----------------------------------------------------------------------------
(* C19: when the statement tree is written.                                *)

\* no call of the resolution function is pending
NonePending(cs) == \A i \in 1..Len(cs) : cs[i].status # "pending"

\* the field of the tree that holds the clause of a call
FieldOf(type) ==
  CASE type = "orderBy" -> "orderby"
    [] type = "groupBy" -> "groupby"
    [] OTHER -> type

\* C19: in the concurrent phase of convertToFormalSQL the statement tree is
\* written only when no resolution call is pending any more
C19_NoWriteWhilePending ==
  [][(pc = "resolve" /\ ast' # ast) => NonePending(calls')]_vars

\* the amended C19: a step of the concurrent phase that writes the tree is the
\* continuation of a call that has just resolved; unless it was the last call
\* pending, in which case the tail of the conversion runs, the step writes
\* only the clause of this call: the place of its leaf, or the list of its
\* clause once the calls of the clause have resolved; the FROM list and the
\* LIMIT are written by the tail alone
C19_WritesOwnClause ==
  [][(pc \in {"resolve", "failed"} /\ ast' # ast) =>
       \E i \in 1..Len(calls) :
         /\ calls[i].status = "pending"
         /\ calls'[i].status = "resolved"
         /\ \/ pc = "resolve" /\ NonePending(calls')
            \/ \A k \in DOMAIN ast \ {FieldOf(calls[i].type)} : ast'[k] = ast[k]]_vars

\* the condition of HAVING holds the answer of its call while a call of
\* another clause is pending
C19_Witness ==
  /\ pc = "resolve"
  /\ run = 1
  /\ ~IsNullish(ast0.having)
  /\ ast.having # ast0.having
  /\ \E i \in 1..Len(calls) : calls[i].status = "pending" /\ calls[i].type # "having"

-----------------------------------------------------------------------------
(* C20: the arguments of the calls for the column references.              *)

\* the expression of the input that call c belongs to
ExprOf(c) ==
  CASE c.type = "where" -> ast0.where
    [] c.type = "having" -> ast0.having
    [] OTHER -> ClauseExprs(ast0, c.type)[c.idx]

\* call c is for a column-reference leaf of the clause it names
LeafOfClause(c) ==
  /\ c.type \in {"columns", "where", "having", "orderBy", "groupBy"}
  /\ Present(ast0, c.type)
  /\ c.path \in Range(RefPaths(ExprOf(c)))
  /\ c.txt = NameArg(GetAt(ExprOf(c), c.path).column)

\* the calls of scanFromAST have all resolved
TablesResolved ==
  \A i \in 1..Len(calls) : calls[i].type = "from" => calls[i].status = "resolved"

\* C20: every call for a column-reference leaf passes the type of the clause
\* the leaf is in and, as its fourth argument, the list of the resolved tables
\* with the default table applied, GROUP BY included; and it is issued only
\* after every call for a table has resolved
C20_CallArguments ==
  run = 1 =>
    \A i \in 1..Len(calls) :
      calls[i].type # "from" =>
        /\ LeafOfClause(calls[i])
        /\ calls[i].from = JsArray(scn.from)
        /\ TablesResolved

\* what holds: the same, but for the calls of GROUP BY, which pass the empty
\* string in the place of the tables
C20_Holds ==
  run = 1 =>
    \A i \in 1..Len(calls) :
      calls[i].type # "from" =>
        /\ LeafOfClause(calls[i])
        /\ calls[i].from = IF calls[i].type = "groupBy" THEN JsString(<<>>)
                           ELSE JsArray(scn.from)
        /\ TablesResolved

\* the same column is looked up for SELECT with the table and for GROUP BY
\* with the empty string
C20_GroupByWithoutFrom ==
  /\ run = 1
  /\ \E i, j \in 1..Len(calls) :
       /\ calls[i].type = "groupBy" /\ calls[i].from = JsString(<<>>)
       /\ calls[j].type = "columns" /\ calls[j].txt = calls[i].txt
       /\ calls[j].from = JsArray(<<V>>)

-----------------------------------------------------------------------------
(* C21: a quote that the text does not close.                              *)

RECURSIVE OpenedAt(_, _, _, _)
\* the place in the text of the quote character that is open at its end, 0
\* if none is
OpenedAt(text, i, quo, at) ==
  IF i > Len(text) THEN at
  ELSE IF text[i] \in QuoteChars /\ quo = NoQuote THEN OpenedAt(text, i + 1, text[i], i)
  ELSE IF text[i] = quo THEN OpenedAt(text, i + 1, NoQuote, 0)
  ELSE OpenedAt(text, i + 1, quo, at)

\* the text after the quote that is left open
Unclosed == SubSeq(lex.txt, OpenedAt(lex.txt, 1, NoQuote, 0) + 1, Len(lex.txt))

\* the text before the quote that is left open
BeforeUnclosed == SubSeq(lex.txt, 1, OpenedAt(lex.txt, 1, NoQuote, 0) - 1)

RECURSIVE PlainTokens(_, _)
\* a text read without quotes: a token for each word and for each other
\* character that is not white space, all of them plain text
PlainTokens(text, word) ==
  IF text = <<>> THEN (IF word = <<>> THEN <<>> ELSE <<Tok(TokenType.TEXT, word)>>)
  ELSE IF Head(text) \in WordChars THEN PlainTokens(Tail(text), Append(word, Head(text)))
  ELSE (IF word = <<>> THEN <<>> ELSE <<Tok(TokenType.TEXT, word)>>)
       \o (IF Head(text) \in SpaceChars \cup QuoteChars THEN <<>>
           ELSE <<Tok(TokenType.TEXT, <<Head(text)>>)>>)
       \o PlainTokens(Tail(text), <<>>)

\* parseTokens has returned and a quote was open at the end of the text
EndedInQuote == lex.pc = "done" /\ lex.quo # NoQuote

\* C21: when the text ends while a quote is open, the text after the opening
\* quote is read as plain text, a token for each word and each punctuation
\* character, and no quoted token is made of it
C21_RevertsToPlain ==
  EndedInQuote =>
    lex.a = parseTokens(BeforeUnclosed) \o PlainTokens(Unclosed, <<>>)

\* what holds: the text after the opening quote, spaces and punctuation
\* included, is one quoted token, the last; an empty rest gives no token
C21_RestQuoted ==
  EndedInQuote =>
    lex.a = parseTokens(BeforeUnclosed)
            \o (IF Unclosed = <<>> THEN <<>> ELSE <<Tok(TokenType.QUOTED, Unclosed)>>)

\* a quote left open before two words and a comma
C21_Witness ==
  /\ EndedInQuote
  /\ Len(PlainTokens(Unclosed, <<>>)) = 3
  /\ lex.a[Len(lex.a)].type = TokenType.QUOTED

-----------------------------------------------------------------------------
(* C22: the English phrases of the whole numbers.                          *)

\* processNumberTokens has returned the tokens of a spelled number
PhraseDone == num.pc = "done" /\ num.given.n > 0

\* C22: for the standard English phrase of a number n from 1 to 999999 (units,
\* teens, tens with units, X hundred [Y], X thousand [Y]) processNumberTokens
\* returns one cardinal token of value n, between the tokens that came before
\* and after the phrase, unchanged and in their order
C22_PhraseFolded ==
  PhraseDone =>
    num.a = num.given.before \o <<Tok(TokenType.CARDINAL, Whole(num.given.n))>>
            \o num.given.after

\* a phrase with a thousand, a hundred, a ten and a unit, between other words
C22_Witness ==
  /\ PhraseDone
  /\ num.given.n = 121121
  /\ Len(num.tokens) = 13
  /\ num.a[3] = Tok(TokenType.CARDINAL, Whole(121121))

-----------------------------------------------------------------------------
(* C23: the ordinal words.                                                 *)

\* the word of the token processNumberTokens reads next
NextWord == Spelled(num.tokens[num.i])

\* the array when numberStateAddOrdinal is called for the token read next
ArrayBefore == Broken(num, NextWord).s

\* the running total then
TotalBefore == numberStateValue(ArrayBefore, NaN).value

\* the running total after the token
TotalAfter == numberStateValue(num'.s, NaN).value

\* processNumberTokens reads an ordinal word
OrdinalRead ==
  /\ num.pc = "scan"
  /\ num.i <= Len(num.tokens)
  /\ NextWord \in DOMAIN ORDINAL
  /\ num' # num

\* C23: an ordinal word that follows a running total of 20 or more divides the
\* total by its value; met with a total below 20 it starts a new value
C23_OrdinalDivides ==
  [][OrdinalRead =>
       IF NumAtLeast(TotalBefore, 20)
       THEN TotalAfter = NumOver(TotalBefore, Whole(ORDINAL[NextWord]))
       ELSE Len(num'.s) = 1]_vars

\* what holds: below 20 the total is divided by the ordinal; from 20 on the
\* ordinal is added as the cardinal of its value is, to the array that the
\* evaluation of the total has fused but not shortened
C23_Holds ==
  [][OrdinalRead =>
       IF NumAtLeast(TotalBefore, 20)
       THEN /\ num'.s = numberStateAdd(FusedDown(ArrayBefore, Len(ArrayBefore)), ORDINAL[NextWord])
            /\ Len(ArrayBefore) = 1 =>
                 TotalAfter = IF ORDINAL[NextWord] < 100
                              THEN NumPlus(TotalBefore, Whole(ORDINAL[NextWord]))
                              ELSE NumTimes(TotalBefore, Whole(ORDINAL[NextWord]))
       ELSE num'.s = <<Group(NumOver(TotalBefore, Whole(ORDINAL[NextWord])), 1, 0)>>]_vars

\* "one hundred twenty third" has become 143
C23_CountedTwice ==
  /\ num.pc = "done"
  /\ num.tokens = WordTokens(<<<<"o", "n", "e">>, <<"h", "u", "n", "d", "r", "e", "d">>, <<"t", "w", "e", "n", "t", "y">>, <<"t", "h", "i", "r", "d">>>>)
  /\ num.a = <<Tok(TokenType.CARDINAL, Whole(143))>>

-----------------------------------------------------------------------------
(* C24: the keyword DESC LIMIT.                                            *)

IsKeyword(t, value) == t.type = TokenType.KEYWORD /\ t.value = value

IsNumber(t) == Family(t.type) = TokenType.NUMBER

\* the numbers next to a keyword DESC LIMIT in the tokens of the query
DescLimits ==
  { itokens[n].value : n \in { n \in 1..Len(itokens) :
      /\ IsNumber(itokens[n])
      /\ \/ n > 1 /\ IsKeyword(itokens[n - 1], <<"D", "E", "S", "C", " ", "L", "I", "M", "I", "T">>)
         \/ n < Len(itokens) /\ IsKeyword(itokens[n + 1], <<"D", "E", "S", "C", " ", "L", "I", "M", "I", "T">>) } }

\* the direction the query asks for
Asked == IF \E n \in 1..Len(itokens) : IsKeyword(itokens[n], <<"A", "S", "C">>) THEN <<"A", "S", "C">> ELSE <<"D", "E", "S", "C">>

Inverse(direction) == IF direction = <<"A", "S", "C">> THEN <<"D", "E", "S", "C">> ELSE <<"A", "S", "C">>

\* every fragment of ORDER BY ends with the direction
AllOrdered(direction) ==
  \A n \in 1..Len(istate.orderBy) : EndsWith(istate.orderBy[n], direction)

\* C24: a keyword DESC LIMIT next to a number, before or after it, sets the
\* limit to the number and toggles reverse, so that the fragments of ORDER BY
\* assembled afterwards have their direction inverted
C24_DescLimitInverts ==
  ipc = "done" /\ DescLimits # {} =>
    /\ istate.limit \in DescLimits
    /\ istate.reverse
    /\ AllOrdered(Inverse(Asked))

\* what holds: the limit is set, reverse is not toggled and the directions
\* are kept; where reverse is set, the directions are inverted
C24_Holds ==
  ipc = "done" =>
    /\ DescLimits # {} => istate.limit \in DescLimits /\ ~istate.reverse
    /\ AllOrdered(IF istate.reverse THEN Inverse(Asked) ELSE Asked)

\* ORDER BY iron ASC DESC LIMIT 3 has kept the ascending order
C24_NotInverted ==
  /\ ipc = "done"
  /\ DescLimits = {<<"3">>}
  /\ istate.limit = <<"3">>
  /\ ~istate.reverse
  /\ istate.orderBy = <<<<"\"", "I", "R", "O", "N", "\"", " ", "A", "S", "C">>>>

-----------------------------------------------------------------------------
(* C25: one pass of a rule over a token list *)

\* the tokens a rule matches at once
Window == Len(Running.t)

\* the places before i that lie in the window of a match of this pass
InWindows == { p \in 1..Len(eng.sub.tokens) :
                \E h \in 1..Len(eng.hits) :
                  eng.hits[h].at <= p /\ p < eng.hits[h].at + Window }

RECURSIVE Rewritten(_, _, _, _)
\* the list in which the window of every match is replaced by what the
\* rule's function returned there, and every other token before upto stays
Rewritten(tokens, hits, p, upto) ==
  IF p >= upto THEN <<>>
  ELSE IF hits # <<>> /\ Head(hits).at = p
    THEN Head(hits).ans \o Rewritten(tokens, Tail(hits), p + Window, upto)
    ELSE <<tokens[p]>> \o Rewritten(tokens, hits, p + 1, upto)

\* C25: in a pass of a rule, every match lies within the list, the matches
\* follow each other from left to right without a token in common, the rule
\* matches at none of the places whose token was copied, and the collected
\* list is the scanned part of the list with every matched window replaced
\* by what the function returned and every other token unchanged and in
\* order; the scan stands right after the last token copied or matched
C25_PassRewrites ==
  eng.pc = "scan" =>
    /\ \A h \in 1..Len(eng.hits) :
         /\ Matches(Running, eng.sub.tokens, eng.hits[h].at)
         /\ eng.hits[h].at + Window - 1 <= Len(eng.sub.tokens)
         /\ eng.hits[h].at + Window <= eng.sub.i
         /\ h > 1 => eng.hits[h].at >= eng.hits[h - 1].at + Window
    /\ \A p \in 1..(eng.sub.i - 1) :
         p \notin InWindows => ~Matches(Running, eng.sub.tokens, p)
    /\ \A p \in 1..Len(eng.sub.tokens) :
         Matches(Running, eng.sub.tokens, p) => p + Window - 1 <= Len(eng.sub.tokens)
    /\ eng.sub.i <= Len(eng.sub.tokens) + 1
    /\ eng.sub.a = Rewritten(eng.sub.tokens, eng.hits, 1, eng.sub.i)

\* a pass has ended over a word, a quoted text and a word under a rule for
\* two texts: the rule acted on the first two and the last word was copied,
\* though the quoted text and the last word are two texts as well
C25_Witness ==
  /\ PassEnded
  /\ Window = 2
  /\ eng.sub.tokens = <<Plain, Quote, Plain>>
  /\ Len(eng.hits) = 1
  /\ eng.hits[1].at = 1
  /\ Matches(Running, eng.sub.tokens, 2)
  /\ eng.sub.a = eng.hits[1].ans \o <<Plain>>

-----------------------------------------------------------------------------
(* C26: the passes of a substage that repeats *)

\* the passes this call of the substage has made or is making
SubstagePasses == Len(eng.lens)

\* C26: within a call of a substage, every pass after the first was given
\* strictly fewer tokens than the pass before it, which had returned them;
\* a call on n tokens makes at most n + 1 passes, and a single one without
\* repetition, whatever the rule's function returns
C26_PassesBounded ==
  eng.pc = "scan" =>
    /\ eng.lens[SubstagePasses] = Len(eng.sub.tokens)
    /\ \A p \in 2..SubstagePasses : eng.lens[p] < eng.lens[p - 1]
    /\ SubstagePasses <= eng.lens[1] + 1
    /\ ~eng.rsubstage => SubstagePasses = 1
    /\ PassEnded /\ ~SubstageAgain =>
         \/ ~eng.rsubstage
         \/ Len(eng.sub.a) >= Len(eng.sub.tokens)

\* a substage called on two tokens has made three passes, the last over an
\* empty list, and returns
C26_Witness ==
  /\ PassEnded
  /\ ~SubstageAgain
  /\ eng.rsubstage
  /\ eng.lens = <<2, 1, 0>>

-----------------------------------------------------------------------------
(* C27: the passes of a stage over its substages *)

\* no rule of the table returns more tokens than it matches
NonGrowing(stage) ==
  \A k \in 1..Len(stage) : \A ans \in stage[k].f : Len(ans) <= Len(stage[k].t)

\* the p-th pass over the substages was followed by another
Followed(p) == p < Len(eng.log) \/ eng.pc = "scan"

C27_Passes ==
  eng.pc \in {"scan", "done"} =>
    /\ eng.k \in 1..Len(eng.stage)
    /\ eng.pc = "done" => Len(eng.log) >= 1 /\ eng.k = Len(eng.stage)
    /\ \A p \in 1..Len(eng.log) :
         /\ eng.log[p].plen = IF p = 1 THEN eng.log[p].got ELSE eng.log[p - 1].last
         /\ p > 1 => eng.log[p].got = eng.log[p - 1].out
         /\ Followed(p) <=> eng.rstage /\ eng.log[p].out < eng.log[p].plen
         /\ eng.rstage /\ NonGrowing(eng.stage) /\ eng.log[p].out < eng.log[p].got
              => Followed(p)

\* the substages run in the order of the table, and a pass ends only after
\* the last of them
C27_InOrder ==
  /\ eng'.k # eng.k => \/ eng'.k = eng.k + 1 /\ Len(eng'.log) = Len(eng.log)
                       \/ eng.k = Len(eng.stage) /\ eng'.k = 1
  /\ Len(eng'.log) # Len(eng.log) =>
       /\ eng.k = Len(eng.stage)
       /\ Len(eng'.log) = Len(eng.log) + 1

\* under a table that never returns more than it matches the stage returns
C27_Terminates == (eng.pc = "scan" /\ NonGrowing(eng.stage)) ~> eng.pc = "done"

-----------------------------------------------------------------------------
(* C28: the calls of one scan of entityBlockScan *)

\* the matches answered so far to a scan all report a length of 1 or more
Advancing(cs) ==
  \A k \in 1..Len(cs) :
    cs[k].state = "resolved" /\ ~cs[k].ans.null => cs[k].ans.length >= 1

\* the words from the (n + 1)-th on
Beyond(words, n) == SubSeq(words, n + 1, Len(words))

\* C28: the first call of a scan gets all the words of its run; after a call
\* resolved with null the scan goes on one word further, after a match it
\* goes on by the length reported, and it ends when no word is left; while
\* every match reports a length of 1 or more each call gets strictly fewer
\* words than the one before and a run of n words takes at most n calls;
\* after a match that reports the length 0 the scan is not over and its next
\* call gets the same words again
C28_ScanAdvance ==
  \A r \in 1..Len(iblk) :
    LET cs == CallsOf(r)
    IN  /\ cs # <<>> => cs[1].words = iblk[r].txts
        /\ \A k \in 1..Len(cs) :
             cs[k].state = "resolved" =>
               LET step == IF cs[k].ans.null THEN 1 ELSE cs[k].ans.length
                   rest == Beyond(cs[k].words, step)
               IN  /\ rest = <<>> => k = Len(cs) /\ iblk[r].settled = "resolved"
                   /\ rest # <<>> => k < Len(cs) /\ cs[k + 1].words = rest
                   /\ step >= 1 => Len(rest) < Len(cs[k].words)
                   /\ step = 0 => rest = cs[k].words /\ iblk[r].settled # "resolved"
        /\ Advancing(cs) => Len(cs) <= Len(iblk[r].txts)

\* the scan of food zinc iron: food matched with length 1 and the second call
\* got two words; zinc matched with length 0, and the third and the fourth
\* call got the same two words again
C28_Witness ==
  /\ Len(icalls) >= 4
  /\ \A c \in 1..4 : icalls[c].run = 1
  /\ Len(icalls[1].words) = 3
  /\ icalls[1].ans.length = 1
  /\ Len(icalls[2].words) = 2
  /\ icalls[2].state = "resolved" /\ ~icalls[2].ans.null /\ icalls[2].ans.length = 0
  /\ icalls[3].words = icalls[2].words
  /\ icalls[3].state = "resolved"
  /\ icalls[4].words = icalls[2].words

-----------------------------------------------------------------------------
(* C29: a hint without the columns option *)

\* the conversion has ended after a matcher found an entity with a hint, the
\* caller gave no columns option and no wildcard was collected
HintAlone ==
  /\ ipc \in {"done", "failed"}
  /\ AllSettled(iblk)
  /\ \E k \in 1..Len(EntityTokens) : EntityTokens[k].hint # NullStr
  /\ iopt.columns = JsUndefined
  /\ <<"*">> \notin Range(Starred(SetOf(istate.columns)))

\* C29, as stated: a conversion whose matcher found an entity with a hint,
\* without the columns option and without a wildcard, returns its string
C29_CompletesWithoutColumns == HintAlone => ipc = "done" /\ isql # <<>>

\* what the code does: line 319 evaluates `hnt in ocols` on the undefined
\* ocols, the TypeError fails the conversion and no string is returned
C29_Holds == HintAlone => ipc = "failed" /\ isql = <<>>

\* ascorbic acid was found with a hint, no option was given, every call of
\* the matcher resolved, and the conversion has failed
C29_Thrown ==
  /\ HintAlone
  /\ ipc = "failed"
  /\ ~MatcherRejected
  /\ \E k \in 1..Len(EntityTokens) : EntityTokens[k].hint = <<"h">>

-----------------------------------------------------------------------------
(* C30: a text without tokens, and the SELECT at the head of the others *)

\* the tokens line 390 leaves of those of the entity stage
Unpunctuated == WithoutPunctuation(EntityTokens)

\* every call of the matcher resolved and convertToInformalSQL has ended
Ended == ipc \in {"done", "failed"} /\ AllSettled(iblk)

\* the text parseTokens read holds white space and filtered punctuation only
Blank == \A k \in 1..Len(lex.txt) : lex.txt[k] \in SpaceChars \cup Punctuation.arg

\* C30: the tokens of a text of white space and filtered punctuation are all
\* dropped by line 390; a conversion left without a token by line 390 fails
\* and returns no string; in every other conversion the list the stages of
\* rules start from begins with the keyword SELECT
C30_SelectFirst ==
  /\ lex.pc = "done" /\ Blank => WithoutPunctuation(lex.a) = <<>>
  /\ Ended /\ Unpunctuated = <<>> => ipc = "failed" /\ isql = <<>>
  /\ Ended /\ Unpunctuated # <<>> =>
       /\ StageTokens[1].type = TokenType.KEYWORD
       /\ StageTokens[1].value = <<"S", "E", "L", "E", "C", "T">>

\* the conversion of `, ?` has failed: the matcher resolved every call, its
\* two tokens were dropped by line 390 and tokens[0].value threw
C30_Witness ==
  /\ Ended
  /\ Len(EntityTokens) = 2
  /\ Unpunctuated = <<>>
  /\ ipc = "failed"
  /\ ~MatcherRejected

=============================================================================
